---- MODULE Spec2Model ----
(***************************************************************************)
(* A model of CHOpt's chart normalisation (NoteTrack, SyncTrack, Chart),   *)
(* its TimeConverter, the PointSet construction and the GUI settings       *)
(* loader.  Every definition is a translation of the C++ it names.         *)
(***************************************************************************)
EXTENDS Integers, Sequences, FiniteSets, TLC

(***************************************************************************)
(* double arithmetic.  A double is modelled by an exact fraction [n, d]    *)
(* in lowest terms with d > 0; d = 0 encodes the IEEE 754 specials:        *)
(* n = 1 is +inf, n = -1 is -inf and n = 0 is NaN.  Rounding of the        *)
(* mantissa is not modelled.                                               *)
(***************************************************************************)
RECURSIVE GCD(_, _)
GCD(a, b) == IF b = 0 THEN a ELSE GCD(b, a % b)

Abs(x) == IF x < 0 THEN -x ELSE x

Sign(x) == IF x < 0 THEN -1 ELSE IF x = 0 THEN 0 ELSE 1

\* The operators below take the values of their arguments once, as the
\* members of singleton sets.
Frac(num, den) ==
    CHOOSE frac \in
        {IF y = 0 THEN [n |-> Sign(x), d |-> 0]
         ELSE [n |-> Sign(y) * (x \div g), d |-> Abs(y) \div g] :
             <<x, y, g>> \in {<<num, den, GCD(Abs(num), Abs(den))>>}} : TRUE

R(i) == [n |-> i, d |-> 1]

NaN == [n |-> 0, d |-> 0]

PosInf == [n |-> 1, d |-> 0]

IsNaN(a) == a.d = 0 /\ a.n = 0

IsFinite(a) == a.d # 0

IsZero(a) == a.d # 0 /\ a.n = 0

RNeg(a) == [n |-> -a.n, d |-> a.d]

RAdd(a, b) ==
    CHOOSE sum \in
        {IF IsNaN(x) \/ IsNaN(y) THEN NaN
         ELSE IF ~IsFinite(x) /\ ~IsFinite(y)
              THEN (IF x.n = y.n THEN x ELSE NaN)
         ELSE IF ~IsFinite(x) THEN x
         ELSE IF ~IsFinite(y) THEN y
         ELSE LET g == GCD(x.d, y.d)
              IN  Frac(x.n * (y.d \div g) + y.n * (x.d \div g),
                       (x.d \div g) * y.d) :
             x \in {a}, y \in {b}} : TRUE

RSub(a, b) == RAdd(a, RNeg(b))

RMul(a, b) ==
    CHOOSE product \in
        {IF IsNaN(x) \/ IsNaN(y) THEN NaN
         ELSE IF ~IsFinite(x) \/ ~IsFinite(y)
              THEN (IF IsZero(x) \/ IsZero(y) THEN NaN
                    ELSE [n |-> Sign(x.n) * Sign(y.n), d |-> 0])
         ELSE IF x.n = 0 \/ y.n = 0 THEN R(0)
         ELSE LET g1 == GCD(Abs(x.n), y.d)
                  g2 == GCD(Abs(y.n), x.d)
              IN  Frac((x.n \div g1) * (y.n \div g2),
                       (x.d \div g2) * (y.d \div g1)) :
             x \in {a}, y \in {b}} : TRUE

\* 1 / b; the zero divisors of the code are unsigned or positive zeros.
RInv(b) ==
    IF IsNaN(b) THEN NaN
    ELSE IF ~IsFinite(b) THEN R(0)
    ELSE IF b.n = 0 THEN PosInf
    ELSE Frac(b.d, b.n)

RDiv(a, b) == RMul(a, RInv(b))

RLt(a, b) ==
    CHOOSE less \in
        {IF IsNaN(x) \/ IsNaN(y) THEN FALSE
         ELSE IF IsFinite(x) /\ IsFinite(y)
              THEN LET g == GCD(x.d, y.d)
                   IN  x.n * (y.d \div g) < y.n * (x.d \div g)
         ELSE (IF IsFinite(x) THEN 0 ELSE x.n)
                  < (IF IsFinite(y) THEN 0 ELSE y.n) :
             x \in {a}, y \in {b}} : TRUE

REq(a, b) == ~IsNaN(a) /\ ~IsNaN(b) /\ a = b

RLe(a, b) ==
    CHOOSE le \in {RLt(x, y) \/ REq(x, y) : x \in {a}, y \in {b}} : TRUE

\* std::floor, std::ceil and std::round (half away from zero) of a finite double.
RFloor(a) == a.n \div a.d

RCeil(a) == -((-a.n) \div a.d)

RRound(a) ==
    IF a.n >= 0 THEN (2 * a.n + a.d) \div (2 * a.d)
    ELSE -((2 * (-a.n) + a.d) \div (2 * a.d))

(***************************************************************************)
(* std::stable_sort of s, where less[i, j] tells whether s[i] compares      *)
(* less than s[j]: element i lands after every element that compares less  *)
(* than it and every equivalent element that precedes it in the input.     *)
(***************************************************************************)
StableSort(s, less) ==
    LET n == Len(s)
        Before(i) == {j \in 1..n : less[j, i] \/ (~less[i, j] /\ j < i)}
    IN  [k \in 1..n |-> s[CHOOSE i \in 1..n : Cardinality(Before(i)) = k - 1]]

\* std::lower_bound, where before[i] tells whether element i compares less
\* than the value: the first index that does not, Len(before) + 1 standing
\* for the end iterator.
LowerBound(before) ==
    IF \E i \in 1..Len(before) : ~before[i]
    THEN CHOOSE i \in 1..Len(before) :
             ~before[i] /\ \A j \in 1..(i - 1) : before[j]
    ELSE Len(before) + 1

(***************************************************************************)
(* Bounds of the model.                                                    *)
(***************************************************************************)
MaxSyncTick == 1

MaxSyncEvents == 3

MaxTrackTick == 2

MaxPointNotes == 2

MaxLongChords == 41

MaxChordSize == 3

\* The most notes of a track an image is drawn from.
MaxImageNotes == 2

\* The most measure lines the constructor is followed for.
MaxMeasureLines == 16

\* The most notes of a drum track.
MaxDrumNotes == 3

\* The most Note On events, and the most Note Off events, of a pairing.
MaxMidiEvents == 2

\* The most solo and soloend events of a track.
MaxSoloEvents == 4

\* The most rows colour_beat_range is followed past the last one.
MaxReadsPastRows == 2

MaxChartLines == 8

MaxChartEvents == 1

MaxTrackEvents == 3

(***************************************************************************)
(* Program constants.                                                      *)
(***************************************************************************)
DEFAULT_BPM == 120000

MS_PER_MINUTE == 60000

DEFAULT_RESOLUTION == 192

MAX_LINE_EDIT_INT == 999999999

MAX_PERCENT == 100

MAX_VIDEO_LAG == 200

MIN_VIDEO_LAG == -200

VARIABLES
    track_stage,        \* "idle", "read" or "built"
    pre_notes,          \* PreNoteTrack::notes, in input order
    pre_sp_phrases,     \* PreNoteTrack::sp_phrases, in input order
    m_notes,            \* NoteTrack::m_notes
    m_sp_phrases,       \* NoteTrack::m_sp_phrases
    sync_stage,         \* "idle", "read", "track", "converter" or "asked"
    pre_bpms,           \* PreSyncTrack::bpms, in input order
    pre_time_sigs,      \* PreSyncTrack::time_sigs, in input order
    header_resolution,  \* the resolution the TimeConverter is given
    sync_track,         \* the SyncTrack built from them
    converter,          \* the TimeConverter built from sync_track
    query,              \* the last conversion asked of the converter
    settings_stage,     \* "idle", "file" (nothing loaded yet) or "loaded"
    settings_file,      \* what <application_dir>/settings.json holds
    settings,           \* the JsonSettings last returned by load_saved_settings
    chart_stage,        \* "idle", "parsing", "returned" or "threw"
    parse_pc,           \* where parse_chart stands: "top", a section or "none"
    input_empty,        \* whether the rest of the input is empty
    lines_read,         \* the lines taken off the input so far
    cur_diff,           \* the difficulty read_single_track is filling
    pre_resolution,     \* PreSongHeader::resolution
    pre_tracks,         \* the PreNoteTracks, by the number of their events
    m_resolution,       \* Chart::m_resolution
    m_note_tracks,      \* the keys of Chart::m_note_tracks
    points_stage,       \* "idle", "input" or "built"
    pt_track,           \* the NoteTrack the PointSet is built from
    pt_converter,       \* its TimeConverter
    pt_unison_phrases,  \* the positions of the unison phrases
    pt_squeeze_settings,    \* SqueezeSettings: squeeze and video_lag
    pt_engine,          \* the Engine
    m_points,           \* PointSet::m_points
    m_next_non_hold_point,      \* PointSet::m_next_non_hold_point
    m_next_sp_granting_note,    \* PointSet::m_next_sp_granting_note
    m_cumulative_score_totals,  \* PointSet::m_cumulative_score_totals
    sust_stage,         \* "idle", "input" or "appended"
    sust_call,          \* the arguments of one call of append_sustain_points
    sust_points,        \* the hold points the call has written
    cand_stage,         \* "idle", "input" or "answered"
    cand_call,          \* the arguments of one call of is_candidate_valid
    cand_overlaps,      \* ProcessedSong::m_overlaps
    act_result,         \* the ActResult the call returned
    img_pc,             \* "idle", "input", "outer", "inner", "lines", "built", "done", "colour", "coloured" or "crashed"
    img_track,          \* the NoteTrack the image is drawn from
    img_sync_track,     \* its SyncTrack
    current_beat,       \* drawn_rows: current_beat
    row_length,         \* drawn_rows: row_length
    m_rows,             \* DrawingInstructions::m_rows
    line_row,           \* the constructor's place in m_rows
    line_start,         \* the constructor's start
    m_measure_lines,    \* DrawingInstructions::m_measure_lines
    m_beat_lines,       \* DrawingInstructions::m_beat_lines
    m_half_beat_lines,  \* DrawingInstructions::m_half_beat_lines
    m_green_ranges,     \* DrawingInstructions::m_green_ranges
    col_start,          \* colour_beat_range: start
    col_end,            \* colour_beat_range: end
    row_iter,           \* colour_beat_range: row_iter, Len + 1 for cend()
    read_past_rows,     \* row_iter was dereferenced at or after cend()
    drum_stage,         \* "idle", "input" or "built"
    drum_track,         \* the NoteTrack<DrumNoteColour> given to points_from_track
    drum_settings,      \* the DrumSettings of the call
    drum_points,        \* the points the call returns
    midi_stage,         \* "idle", "loop", "returned" or "threw"
    on_events,          \* the Note On events, pairs (position, rank)
    off_events,         \* the Note Off events, pairs (position, rank)
    on_iter,            \* the index of on_iter, Len + 1 for cend()
    off_iter,           \* the index of off_iter, Len + 1 for cend()
    ranges,             \* the ranges written so far
    solo_stage,         \* "idle", "loop" or "returned"
    solo_events,        \* the sorted pairs (position, type), type 0 a solo and 1 a soloend
    solo_notes,         \* the notes of the track, as they were read
    solo_iter,          \* the index of the event the loop is at
    solo_start,         \* start
    solo_end,           \* end
    in_solo,            \* in_solo
    solos               \* the solos written so far

trackVars == <<track_stage, pre_notes, pre_sp_phrases, m_notes, m_sp_phrases>>

syncVars == <<sync_stage, pre_bpms, pre_time_sigs, header_resolution,
              sync_track, converter, query>>

settingsVars == <<settings_stage, settings_file, settings>>

chartVars == <<chart_stage, parse_pc, input_empty, lines_read, cur_diff,
               pre_resolution, pre_tracks, m_resolution, m_note_tracks>>

pointsVars == <<points_stage, pt_track, pt_converter, pt_unison_phrases,
                pt_squeeze_settings, pt_engine, m_points,
                m_next_non_hold_point, m_next_sp_granting_note,
                m_cumulative_score_totals>>

sustainVars == <<sust_stage, sust_call, sust_points>>

candidateVars == <<cand_stage, cand_call, cand_overlaps, act_result>>

imageVars == <<img_pc, img_track, img_sync_track, current_beat, row_length, m_rows, line_row, line_start, m_measure_lines, m_beat_lines, m_half_beat_lines, m_green_ranges, col_start, col_end, row_iter, read_past_rows>>

drumsVars == <<drum_stage, drum_track, drum_settings, drum_points>>

midiVars == <<midi_stage, on_events, off_events, on_iter, off_iter, ranges>>

soloVars == <<solo_stage, solo_events, solo_notes, solo_iter, solo_start, solo_end, in_solo, solos>>

vars == <<trackVars, syncVars, settingsVars, chartVars,
         pointsVars, sustainVars, candidateVars, imageVars,
         drumsVars, midiVars, soloVars>>

(***************************************************************************)
(* NoteTrack::NoteTrack                                                    *)
(***************************************************************************)
\* enum class NoteColour, by its underlying value.
ColourValue(colour) ==
    CASE colour = "Green" -> 0
      [] colour = "Red" -> 1
      [] colour = "Yellow" -> 2
      [] colour = "Blue" -> 3
      [] colour = "Orange" -> 4
      [] colour = "Open" -> 5

\* std::tie(lhs.position, lhs.colour) < std::tie(rhs.position, rhs.colour)
NoteLess(lhs, rhs) ==
    \/ lhs.position < rhs.position
    \/ /\ lhs.position = rhs.position
       /\ ColourValue(lhs.colour) < ColourValue(rhs.colour)

\* A mutant of KeepLastOfEachNote: the first note of a run is the one kept.
RECURSIVE KeepFirstOfEachNote(_, _, _, _)
KeepFirstOfEachNote(notes, p, prev_note, out) ==
    IF p > Len(notes) THEN Append(out, notes[prev_note])
    ELSE IF notes[p].position # notes[prev_note].position
            \/ notes[p].colour # notes[prev_note].colour
         THEN KeepFirstOfEachNote(notes, p + 1, p,
                                  Append(out, notes[prev_note]))
         ELSE KeepFirstOfEachNote(notes, p + 1, prev_note, out)

\* The loop of lines 70-78 over the sorted notes: prev_note is emitted when the
\* note after it differs in position or colour, and once more at the end.
RECURSIVE KeepLastOfEachNote(_, _, _, _)
KeepLastOfEachNote(notes, p, prev_note, out) ==
    IF p > Len(notes) THEN Append(out, notes[prev_note])
    ELSE KeepLastOfEachNote(
             notes, p + 1, p,
             IF notes[p].position # notes[prev_note].position
                \/ notes[p].colour # notes[prev_note].colour
             THEN Append(out, notes[prev_note])
             ELSE out)

NoteTrackNotes(notes) ==
    LET sorted == StableSort(notes, [i, j \in 1..Len(notes) |-> NoteLess(notes[i], notes[j])])
    IN  IF sorted = <<>> THEN <<>> ELSE KeepLastOfEachNote(sorted, 2, 1, <<>>)

PositionLess(x, y) == x.position < y.position

SortByPosition(s) ==
    StableSort(s, [i, j \in 1..Len(s) |-> PositionLess(s[i], s[j])])

Min(a, b) == IF b < a THEN b ELSE a

\* A mutant of TrimPhrases: the phrases keep their lengths.
UntrimmedPhrases(sorted) == sorted

\* The loop of lines 86-92: every phrase but the last is cut at the start of
\* the phrase that follows it.
TrimPhrases(sorted) ==
    [p \in 1..Len(sorted) |->
        IF p = Len(sorted) THEN sorted[p]
        ELSE [sorted[p] EXCEPT
                 !.length = Min(sorted[p].length,
                                sorted[p + 1].position - sorted[p].position)]]

\* The test of lines 95-101.
PhraseHasNote(phrase, notes) ==
    LET first_note == LowerBound([n \in 1..Len(notes) |->
                                       notes[n].position < phrase.position])
    IN  /\ first_note # Len(notes) + 1
        /\ notes[first_note].position < phrase.position + phrase.length

NoteTrackPhrases(sp_phrases, notes) ==
    SelectSeq(TrimPhrases(SortByPosition(sp_phrases)),
              LAMBDA phrase : PhraseHasNote(phrase, notes))

(***************************************************************************)
(* A note track: read_single_track collects notes and phrases, NoteTrack   *)
(* normalises them.                                                        *)
(***************************************************************************)
TrackTicks == 0..MaxTrackTick

Notes == [position : TrackTicks, length : {0, 1}, colour : {"Green", "Red"}]

StarPowers == [position : TrackTicks, length : {0, 1, 3}]

TrackIdle ==
    /\ track_stage = "idle"
    /\ pre_notes = <<>>
    /\ pre_sp_phrases = <<>>
    /\ m_notes = <<>>
    /\ m_sp_phrases = <<>>

\* read_single_track, an "N" line.
ReadNote ==
    /\ track_stage = "read"
    /\ Len(pre_notes) + Len(pre_sp_phrases) < MaxTrackEvents
    /\ \E n \in Notes : pre_notes' = Append(pre_notes, n)
    /\ UNCHANGED <<track_stage, pre_sp_phrases, m_notes, m_sp_phrases>>
    /\ UNCHANGED <<syncVars, settingsVars, chartVars,
                   pointsVars, sustainVars, candidateVars, imageVars, drumsVars, midiVars, soloVars>>

\* read_single_track, an "S" line.
ReadStarPower ==
    /\ track_stage = "read"
    /\ Len(pre_notes) + Len(pre_sp_phrases) < MaxTrackEvents
    /\ \E sp \in StarPowers : pre_sp_phrases' = Append(pre_sp_phrases, sp)
    /\ UNCHANGED <<track_stage, pre_notes, m_notes, m_sp_phrases>>
    /\ UNCHANGED <<syncVars, settingsVars, chartVars,
                   pointsVars, sustainVars, candidateVars, imageVars, drumsVars, midiVars, soloVars>>

ConstructNoteTrack ==
    /\ track_stage = "read"
    /\ track_stage' = "built"
    /\ m_notes' = NoteTrackNotes(pre_notes)
    /\ m_sp_phrases' = NoteTrackPhrases(pre_sp_phrases, NoteTrackNotes(pre_notes))
    /\ UNCHANGED <<pre_notes, pre_sp_phrases>>
    /\ UNCHANGED <<syncVars, settingsVars, chartVars,
                   pointsVars, sustainVars, candidateVars, imageVars, drumsVars, midiVars, soloVars>>

(***************************************************************************)
(* SyncTrack::SyncTrack                                                    *)
(***************************************************************************)
SyncTicks == 0..MaxSyncTick

\* The tempos a chart line "<tick> = B <bpm>" can carry: from_chars accepts 0.
BpmValues == {0, DEFAULT_BPM \div 2, DEFAULT_BPM}

BPMs == [position : SyncTicks, bpm : BpmValues]

TimeSignatures == [position : SyncTicks, numerator : {3, 4}, denominator : {4}]

\* A mutant of KeepLastOfEachPosition: the first entry of a run is the one kept.
RECURSIVE KeepFirstOfEachPosition(_, _, _, _)
KeepFirstOfEachPosition(sorted, p, prev, out) ==
    IF p > Len(sorted) THEN Append(out, prev)
    ELSE IF sorted[p].position # prev.position
         THEN KeepFirstOfEachPosition(sorted, p + 1, sorted[p],
                                      Append(out, prev))
         ELSE KeepFirstOfEachPosition(sorted, p + 1, prev, out)

\* The loop shared by both halves of the constructor: an entry is emitted when
\* the next one has another position, so the last of a run of equal positions
\* survives; `prev` starts as the default at tick 0.
RECURSIVE KeepLastOfEachPosition(_, _, _, _)
KeepLastOfEachPosition(sorted, p, prev, out) ==
    IF p > Len(sorted) THEN Append(out, prev)
    ELSE KeepLastOfEachPosition(
             sorted, p + 1, sorted[p],
             IF sorted[p].position # prev.position THEN Append(out, prev)
             ELSE out)

DefaultBpm == [position |-> 0, bpm |-> DEFAULT_BPM]

DefaultTimeSignature == [position |-> 0, numerator |-> 4, denominator |-> 4]

SyncTrack(time_sigs, bpms) ==
    [time_sigs |-> KeepLastOfEachPosition(SortByPosition(time_sigs),
                                          1, DefaultTimeSignature, <<>>),
     bpms |-> KeepLastOfEachPosition(SortByPosition(bpms),
                                     1, DefaultBpm, <<>>)]

(***************************************************************************)
(* TimeConverter                                                           *)
(***************************************************************************)
\* The constructor's loop over sync_track.bpms().
RECURSIVE BeatTimestamps(_, _, _, _, _, _)
BeatTimestamps(bpms, resolution, p, last_tick, last_bpm, acc) ==
    IF p > Len(bpms) THEN acc
    ELSE LET last_time == IF acc = <<>> THEN R(0) ELSE acc[Len(acc)].time
             time == RAdd(last_time,
                          RDiv(R((bpms[p].position - last_tick) * MS_PER_MINUTE),
                               R(resolution * last_bpm)))
             beat == Frac(bpms[p].position, resolution)
         IN  BeatTimestamps(bpms, resolution, p + 1, bpms[p].position,
                            bpms[p].bpm,
                            Append(acc, [beat |-> beat, time |-> time]))

TimeConverter(sync, resolution) ==
    [m_beat_timestamps |->
         BeatTimestamps(sync.bpms, resolution, 1, 0, DEFAULT_BPM, <<>>),
     m_last_bpm |-> sync.bpms[Len(sync.bpms)].bpm]

beats_to_seconds(conv, beats) ==
    LET ts == conv.m_beat_timestamps
        pos == LowerBound([x \in 1..Len(ts) |-> RLt(ts[x].beat, beats)])
    IN  IF pos = Len(ts) + 1
        THEN LET back == ts[Len(ts)]
             IN  RAdd(back.time,
                      RDiv(RMul(RSub(beats, back.beat), R(MS_PER_MINUTE)),
                           R(conv.m_last_bpm)))
        ELSE IF pos = 1
        THEN RSub(ts[pos].time,
                  RDiv(RMul(RSub(ts[pos].beat, beats), R(MS_PER_MINUTE)),
                       R(DEFAULT_BPM)))
        ELSE LET prev == ts[pos - 1]
             IN  RAdd(prev.time,
                      RDiv(RMul(RSub(ts[pos].time, prev.time),
                                RSub(beats, prev.beat)),
                           RSub(ts[pos].beat, prev.beat)))

\* A mutant of seconds_to_beats: past the last breakpoint it goes on at the
\* default tempo instead of the last one.
seconds_to_beats_default_tail(conv, seconds) ==
    LET ts == conv.m_beat_timestamps
        pos == LowerBound([x \in 1..Len(ts) |-> RLt(ts[x].time, seconds)])
    IN  IF pos = Len(ts) + 1
        THEN LET back == ts[Len(ts)]
             IN  RAdd(back.beat,
                      RDiv(RMul(RSub(seconds, back.time), R(DEFAULT_BPM)),
                           R(MS_PER_MINUTE)))
        ELSE IF pos = 1
        THEN RSub(ts[pos].beat,
                  RDiv(RMul(RSub(ts[pos].time, seconds), R(DEFAULT_BPM)),
                       R(MS_PER_MINUTE)))
        ELSE LET prev == ts[pos - 1]
             IN  RAdd(prev.beat,
                      RDiv(RMul(RSub(ts[pos].beat, prev.beat),
                                RSub(seconds, prev.time)),
                           RSub(ts[pos].time, prev.time)))

seconds_to_beats(conv, seconds) ==
    LET ts == conv.m_beat_timestamps
        pos == LowerBound([x \in 1..Len(ts) |-> RLt(ts[x].time, seconds)])
    IN  IF pos = Len(ts) + 1
        THEN LET back == ts[Len(ts)]
             IN  RAdd(back.beat,
                      RDiv(RMul(RSub(seconds, back.time), R(conv.m_last_bpm)),
                           R(MS_PER_MINUTE)))
        ELSE IF pos = 1
        THEN RSub(ts[pos].beat,
                  RDiv(RMul(RSub(ts[pos].time, seconds), R(DEFAULT_BPM)),
                       R(MS_PER_MINUTE)))
        ELSE LET prev == ts[pos - 1]
             IN  RAdd(prev.beat,
                      RDiv(RMul(RSub(ts[pos].beat, prev.beat),
                                RSub(seconds, prev.time)),
                           RSub(ts[pos].time, prev.time)))

(***************************************************************************)
(* The sync pipeline: read_sync_track collects events, SyncTrack           *)
(* normalises them, a TimeConverter is built and asked for conversions.    *)
(***************************************************************************)
Resolutions == {1, 2}

\* The beats asked for: quarter beats from before tick 0 to past the last tick.
QueryBeats == {Frac(k, 4) : k \in (-2)..(4 * MaxSyncTick + 2)}

NoSyncTrack == [time_sigs |-> <<>>, bpms |-> <<>>]

NoConverter == [m_beat_timestamps |-> <<>>, m_last_bpm |-> 0]

NoQuery == [beats |-> R(0), seconds |-> R(0), back |-> R(0)]

SyncIdle ==
    /\ sync_stage = "idle"
    /\ pre_bpms = <<>>
    /\ pre_time_sigs = <<>>
    /\ header_resolution = DEFAULT_RESOLUTION
    /\ sync_track = NoSyncTrack
    /\ converter = NoConverter
    /\ query = NoQuery

\* read_sync_track, a "B" line.
ReadBpm ==
    /\ sync_stage = "read"
    /\ Len(pre_bpms) + Len(pre_time_sigs) < MaxSyncEvents
    /\ \E b \in BPMs : pre_bpms' = Append(pre_bpms, b)
    /\ UNCHANGED <<sync_stage, pre_time_sigs, header_resolution, sync_track,
                   converter, query>>
    /\ UNCHANGED <<trackVars, settingsVars, chartVars,
                   pointsVars, sustainVars, candidateVars, imageVars, drumsVars, midiVars, soloVars>>

\* read_sync_track, a "TS" line.
ReadTimeSig ==
    /\ sync_stage = "read"
    /\ Len(pre_bpms) + Len(pre_time_sigs) < MaxSyncEvents
    /\ \E t \in TimeSignatures : pre_time_sigs' = Append(pre_time_sigs, t)
    /\ UNCHANGED <<sync_stage, pre_bpms, header_resolution, sync_track,
                   converter, query>>
    /\ UNCHANGED <<trackVars, settingsVars, chartVars,
                   pointsVars, sustainVars, candidateVars, imageVars, drumsVars, midiVars, soloVars>>

ConstructSyncTrack ==
    /\ sync_stage = "read"
    /\ sync_stage' = "track"
    /\ sync_track' = SyncTrack(pre_time_sigs, pre_bpms)
    /\ UNCHANGED <<pre_bpms, pre_time_sigs, header_resolution, converter,
                   query>>
    /\ UNCHANGED <<trackVars, settingsVars, chartVars,
                   pointsVars, sustainVars, candidateVars, imageVars, drumsVars, midiVars, soloVars>>

ConstructTimeConverter ==
    /\ sync_stage = "track"
    /\ sync_stage' = "converter"
    /\ converter' = TimeConverter(sync_track, header_resolution)
    /\ UNCHANGED <<pre_bpms, pre_time_sigs, header_resolution, sync_track,
                   query>>
    /\ UNCHANGED <<trackVars, settingsVars, chartVars,
                   pointsVars, sustainVars, candidateVars, imageVars, drumsVars, midiVars, soloVars>>

\* One conversion is asked per behaviour: a conversion leaves the converter as
\* it is, so a second one finds nothing new.
Convert ==
    /\ sync_stage = "converter"
    /\ sync_stage' = "asked"
    /\ \E b \in QueryBeats :
           LET s == beats_to_seconds(converter, b)
           IN  query' = [beats |-> b, seconds |-> s,
                         back |-> seconds_to_beats(converter, s)]
    /\ UNCHANGED <<pre_bpms, pre_time_sigs, header_resolution, sync_track,
                   converter>>
    /\ UNCHANGED <<trackVars, settingsVars, chartVars,
                   pointsVars, sustainVars, candidateVars, imageVars, drumsVars, midiVars, soloVars>>

(***************************************************************************)
(* gui/json_settings.cpp                                                   *)
(***************************************************************************)
IntKeys == {"squeeze", "early_whammy", "lazy_whammy", "whammy_delay",
            "video_lag"}

\* A QJsonValue: Undefined for a key the object lacks, a String, a Bool, or a
\* Double that is the whole number num or (whole = FALSE) num + 1/2.
Undefined == [type |-> "Undefined", num |-> 0, whole |-> FALSE, b |-> FALSE]

JsonString == [type |-> "String", num |-> 0, whole |-> FALSE, b |-> FALSE]

JsonBool(b) == [type |-> "Bool", num |-> 0, whole |-> FALSE, b |-> b]

JsonInt(i) == [type |-> "Double", num |-> i, whole |-> TRUE, b |-> FALSE]

JsonHalf(i) == [type |-> "Double", num |-> i, whole |-> FALSE, b |-> FALSE]

\* QJsonValue::toInt: the default unless the value is a whole-numbered Double.
toInt(value, default_value) ==
    IF value.type = "Double" /\ value.whole THEN value.num ELSE default_value

\* QJsonValue::toBool
toBool(value, default_value) ==
    IF value.type = "Bool" THEN value.b ELSE default_value

\* A mutant of read_value: the upper end of the range is excluded.
read_value_exclusive(obj, name, range, default_value) ==
    LET value == toInt(obj[name], default_value)
    IN  IF value >= range.min /\ value < range.max THEN value
        ELSE default_value

read_value(obj, name, range, default_value) ==
    LET value == toInt(obj[name], default_value)
    IN  IF value >= range.min /\ value <= range.max THEN value
        ELSE default_value

read_json_bool(obj, name, default_value) == toBool(obj[name], default_value)

\* The settings of lines 63-69.
DefaultSettings ==
    [squeeze |-> MAX_PERCENT, early_whammy |-> MAX_PERCENT, lazy_whammy |-> 0,
     whammy_delay |-> 0, video_lag |-> 0, is_lefty_flip |-> FALSE]

load_saved_settings(file) ==
    IF file.kind # "object" THEN DefaultSettings
    ELSE [squeeze |-> read_value(file.obj, "squeeze",
                                 [min |-> 0, max |-> MAX_PERCENT], MAX_PERCENT),
          early_whammy |-> read_value(file.obj, "early_whammy",
                                      [min |-> 0, max |-> MAX_PERCENT],
                                      MAX_PERCENT),
          lazy_whammy |-> read_value(file.obj, "lazy_whammy",
                                     [min |-> 0, max |-> MAX_LINE_EDIT_INT], 0),
          whammy_delay |-> read_value(file.obj, "whammy_delay",
                                      [min |-> 0, max |-> MAX_LINE_EDIT_INT], 0),
          video_lag |-> read_value(file.obj, "video_lag",
                                   [min |-> MIN_VIDEO_LAG,
                                    max |-> MAX_VIDEO_LAG], 0),
          is_lefty_flip |-> read_json_bool(file.obj, "lefty_flip", FALSE)]

save_settings(s) ==
    [kind |-> "object",
     obj |-> [k \in IntKeys \cup {"lefty_flip"} |->
                 IF k = "lefty_flip" THEN JsonBool(s.is_lefty_flip)
                 ELSE JsonInt(s[k])]]

\* The values a key of the file is given: none, a string, a number with a
\* fraction, and the whole numbers at and next to the ends of the intervals
\* [lo, hi] and [lo, far] (hi = far for a key with one upper end).
ProbeValues(lo, hi, far) ==
    {Undefined, JsonString, JsonHalf(lo)}
        \cup {JsonInt(i) : i \in {lo - 1, lo, hi, hi + 1, far, far + 1}}

FileObjects ==
    [squeeze : ProbeValues(0, MAX_PERCENT, MAX_PERCENT),
     early_whammy : ProbeValues(0, MAX_PERCENT, MAX_PERCENT),
     lazy_whammy : ProbeValues(0, MAX_PERCENT, MAX_LINE_EDIT_INT),
     whammy_delay : ProbeValues(0, MAX_PERCENT, MAX_LINE_EDIT_INT),
     video_lag : ProbeValues(MIN_VIDEO_LAG, MAX_VIDEO_LAG, MAX_VIDEO_LAG),
     lefty_flip : {Undefined, JsonString, JsonBool(TRUE), JsonBool(FALSE)}]

\* No file, a file that is not JSON, a JSON array, or a JSON object.
SettingsFiles ==
    [kind : {"absent", "invalid", "array"}, obj : {save_settings(DefaultSettings).obj}]
        \cup [kind : {"object"}, obj : FileObjects]

SettingsIdle ==
    /\ settings_stage = "idle"
    /\ settings_file = [kind |-> "absent", obj |-> save_settings(DefaultSettings).obj]
    /\ settings = DefaultSettings

LoadSavedSettings ==
    /\ settings_stage = "file"
    /\ settings_stage' = "loaded"
    /\ settings' = load_saved_settings(settings_file)
    /\ UNCHANGED settings_file
    /\ UNCHANGED <<trackVars, syncVars, chartVars,
                   pointsVars, sustainVars, candidateVars, imageVars, drumsVars, midiVars, soloVars>>

SaveSettings ==
    /\ settings_stage = "loaded"
    /\ settings_stage' = "file"
    /\ settings_file' = save_settings(settings)
    /\ UNCHANGED settings
    /\ UNCHANGED <<trackVars, syncVars, chartVars,
                   pointsVars, sustainVars, candidateVars, imageVars, drumsVars, midiVars, soloVars>>

(***************************************************************************)
(* Chart::parse_chart, a line at a time, and Chart::from_midi.  A line is  *)
(* known by the branch of the parser it takes; the contents of the notes   *)
(* and of the sync events are those of the two parts above.                *)
(***************************************************************************)
Difficulties == {"Easy", "Expert"}

\* The values a line "Resolution = <int>" can carry: from_chars accepts any int.
ResolutionValues == {-1, 0, 1, DEFAULT_RESOLUTION}

\* Midi::ticks_per_quarter_note, the 15-bit division of the MIDI header.
MidiDivisions == {0, 1, 480}

EmptyPreTrack == [notes |-> 0, sp_phrases |-> 0]

is_empty(track) == track.notes = 0 /\ track.sp_phrases = 0

ChartIdle ==
    /\ chart_stage = "idle"
    /\ parse_pc = "none"
    /\ input_empty = TRUE
    /\ lines_read = 0
    /\ cur_diff = "Easy"
    /\ pre_resolution = DEFAULT_RESOLUTION
    /\ pre_tracks = [d \in Difficulties |-> EmptyPreTrack]
    /\ m_resolution = DEFAULT_RESOLUTION
    /\ m_note_tracks = {}

\* break_off_newline: a line is taken off the input and what is left may be
\* empty; on an empty input the line is "" and the input stays empty.
BreakOffNewline ==
    IF input_empty
    THEN UNCHANGED <<input_empty, lines_read>>
    ELSE /\ lines_read' = lines_read + 1
         /\ input_empty' \in (IF lines_read + 1 >= MaxChartLines
                              THEN {TRUE} ELSE BOOLEAN)

\* The line break_off_newline returns, by kind.
Lines(kinds) == IF input_empty THEN {""} ELSE kinds

Throw ==
    /\ chart_stage' = "threw"
    /\ parse_pc' = "none"

\* parse_chart up to its loop.
BeginParseChart ==
    /\ chart_stage = "idle"
    /\ chart_stage' = "parsing"
    /\ parse_pc' = "top"
    /\ input_empty' \in BOOLEAN
    /\ UNCHANGED <<lines_read, cur_diff, pre_resolution, pre_tracks,
                   m_resolution, m_note_tracks>>
    /\ UNCHANGED <<trackVars, syncVars, settingsVars,
                   pointsVars, sustainVars, candidateVars, imageVars, drumsVars, midiVars, soloVars>>

HeaderLines == {"[Song]", "[SyncTrack]", "[EasySingle]", "[ExpertSingle]",
                "[Events]"}

HeaderDifficulty(header) ==
    IF header = "[EasySingle]" THEN "Easy" ELSE "Expert"

\* One turn of the loop of parse_chart, up to the call of a section reader;
\* read_single_track skips the section of a track that is not empty.
ReadHeader ==
    /\ chart_stage = "parsing"
    /\ parse_pc = "top"
    /\ ~input_empty
    /\ \E header \in HeaderLines :
        /\ BreakOffNewline
        /\ IF header = "[Song]"
           THEN parse_pc' = "song_open" /\ UNCHANGED cur_diff
           ELSE IF header = "[SyncTrack]"
           THEN parse_pc' = "sync_open" /\ UNCHANGED cur_diff
           ELSE IF header \in {"[EasySingle]", "[ExpertSingle]"}
           THEN /\ cur_diff' = HeaderDifficulty(header)
                /\ parse_pc' = IF is_empty(pre_tracks[HeaderDifficulty(header)])
                               THEN "track_open" ELSE "skip_open"
           ELSE parse_pc' = "skip_open" /\ UNCHANGED cur_diff
    /\ UNCHANGED <<chart_stage, pre_resolution, pre_tracks, m_resolution,
                   m_note_tracks>>
    /\ UNCHANGED <<trackVars, syncVars, settingsVars,
                   pointsVars, sustainVars, candidateVars, imageVars, drumsVars, midiVars, soloVars>>

SectionBody(pc) ==
    CASE pc = "song_open" -> "song"
      [] pc = "sync_open" -> "sync"
      [] pc = "track_open" -> "track"
      [] pc = "skip_open" -> "skip"

\* The first line of a section, which every reader wants to be "{".
OpenSection ==
    /\ chart_stage = "parsing"
    /\ parse_pc \in {"song_open", "sync_open", "track_open", "skip_open"}
    /\ \E line \in Lines({"{", "other"}) :
        /\ BreakOffNewline
        /\ IF line = "{"
           THEN parse_pc' = SectionBody(parse_pc) /\ UNCHANGED chart_stage
           ELSE Throw
    /\ UNCHANGED <<cur_diff, pre_resolution, pre_tracks, m_resolution,
                   m_note_tracks>>
    /\ UNCHANGED <<trackVars, syncVars, settingsVars,
                   pointsVars, sustainVars, candidateVars, imageVars, drumsVars, midiVars, soloVars>>

\* One turn of the loop of skip_section.
SkipLine ==
    /\ chart_stage = "parsing"
    /\ parse_pc = "skip"
    /\ \E line \in Lines({"}", "other"}) :
        /\ BreakOffNewline
        /\ parse_pc' = IF line = "}" THEN "top" ELSE "skip"
    /\ UNCHANGED <<chart_stage, cur_diff, pre_resolution, pre_tracks,
                   m_resolution, m_note_tracks>>
    /\ UNCHANGED <<trackVars, syncVars, settingsVars,
                   pointsVars, sustainVars, candidateVars, imageVars, drumsVars, midiVars, soloVars>>

\* One turn of the loop of read_song_header; a "Resolution = " line whose
\* rest is not an int, and every other line, leave the header as it is.
SongLine ==
    /\ chart_stage = "parsing"
    /\ parse_pc = "song"
    /\ \E line \in Lines({"}", "Resolution = ", "Resolution = x", "other"}) :
        /\ BreakOffNewline
        /\ parse_pc' = IF line = "}" THEN "top" ELSE "song"
        /\ IF line = "Resolution = "
           THEN \E result \in ResolutionValues : pre_resolution' = result
           ELSE UNCHANGED pre_resolution
    /\ UNCHANGED <<chart_stage, cur_diff, pre_tracks, m_resolution,
                   m_note_tracks>>
    /\ UNCHANGED <<trackVars, syncVars, settingsVars,
                   pointsVars, sustainVars, candidateVars, imageVars, drumsVars, midiVars, soloVars>>

\* One turn of the loop of read_sync_track: a line of fewer than four fields
\* throws, any other is an event that is stored or passed over.
SyncLine ==
    /\ chart_stage = "parsing"
    /\ parse_pc = "sync"
    /\ \E line \in Lines({"}", "short", "event"}) :
        /\ BreakOffNewline
        /\ IF line = "}"
           THEN parse_pc' = "top" /\ UNCHANGED chart_stage
           ELSE IF line = "event"
           THEN UNCHANGED <<parse_pc, chart_stage>>
           ELSE Throw
    /\ UNCHANGED <<cur_diff, pre_resolution, pre_tracks, m_resolution,
                   m_note_tracks>>
    /\ UNCHANGED <<trackVars, syncVars, settingsVars,
                   pointsVars, sustainVars, candidateVars, imageVars, drumsVars, midiVars, soloVars>>

\* One turn of the loop of read_single_track.  "N" is a note that is stored,
\* "S" a phrase that is stored, "bad N" and "bad S" the events that throw,
\* "passed" an event that changes nothing (a forced or tap flag, a solo
\* marker, a position that is not an int).
TrackLine ==
    /\ chart_stage = "parsing"
    /\ parse_pc = "track"
    /\ \E line \in Lines({"}", "short", "N", "S", "bad N", "bad S", "passed"}) :
        /\ BreakOffNewline
        /\ IF line = "}"
           THEN parse_pc' = "top" /\ UNCHANGED <<chart_stage, pre_tracks>>
           ELSE IF line = "N"
           THEN /\ pre_tracks[cur_diff].notes < MaxChartEvents
                /\ pre_tracks' = [pre_tracks EXCEPT ![cur_diff].notes = @ + 1]
                /\ UNCHANGED <<parse_pc, chart_stage>>
           ELSE IF line = "S"
           THEN /\ pre_tracks[cur_diff].sp_phrases < MaxChartEvents
                /\ pre_tracks' =
                       [pre_tracks EXCEPT ![cur_diff].sp_phrases = @ + 1]
                /\ UNCHANGED <<parse_pc, chart_stage>>
           ELSE IF line = "passed"
           THEN UNCHANGED <<parse_pc, chart_stage, pre_tracks>>
           ELSE Throw /\ UNCHANGED pre_tracks
    /\ UNCHANGED <<cur_diff, pre_resolution, m_resolution, m_note_tracks>>
    /\ UNCHANGED <<trackVars, syncVars, settingsVars,
                   pointsVars, sustainVars, candidateVars, imageVars, drumsVars, midiVars, soloVars>>

\* parse_chart after its loop: the chart takes the header's resolution and
\* a NoteTrack for every difficulty that has notes.
FinishParseChart ==
    /\ chart_stage = "parsing"
    /\ parse_pc = "top"
    /\ input_empty
    /\ parse_pc' = "none"
    /\ LET tracks == {d \in Difficulties : pre_tracks[d].notes > 0}
       IN  IF tracks = {}
           THEN /\ chart_stage' = "threw"
                /\ UNCHANGED <<m_resolution, m_note_tracks>>
           ELSE /\ chart_stage' = "returned"
                /\ m_resolution' = pre_resolution
                /\ m_note_tracks' = tracks
    /\ UNCHANGED <<input_empty, lines_read, cur_diff, pre_resolution,
                   pre_tracks>>
    /\ UNCHANGED <<trackVars, syncVars, settingsVars,
                   pointsVars, sustainVars, candidateVars, imageVars, drumsVars, midiVars, soloVars>>

\* from_midi: a division of 0 throws, a file without tracks gives a chart
\* without tracks, a Note On without its Note Off throws.
FromMidi ==
    /\ chart_stage = "idle"
    /\ \E ticks_per_quarter_note \in MidiDivisions,
          tracks_empty \in BOOLEAN,
          unmatched_note_on \in BOOLEAN,
          note_sets \in SUBSET Difficulties :
        IF ticks_per_quarter_note = 0
        THEN chart_stage' = "threw" /\ UNCHANGED <<m_resolution, m_note_tracks>>
        ELSE IF tracks_empty
        THEN /\ chart_stage' = "returned"
             /\ m_resolution' = ticks_per_quarter_note
             /\ m_note_tracks' = {}
        ELSE IF unmatched_note_on
        THEN chart_stage' = "threw" /\ UNCHANGED <<m_resolution, m_note_tracks>>
        ELSE /\ chart_stage' = "returned"
             /\ m_resolution' = ticks_per_quarter_note
             /\ m_note_tracks' = note_sets
    /\ UNCHANGED <<parse_pc, input_empty, lines_read, cur_diff, pre_resolution,
                   pre_tracks>>
    /\ UNCHANGED <<trackVars, syncVars, settingsVars,
                   pointsVars, sustainVars, candidateVars, imageVars, drumsVars, midiVars, soloVars>>

(***************************************************************************)
(* PointSet: points_from_track for a five-fret track without a big rock    *)
(* ending, and the vectors kept beside the points.  A Position is         *)
(* modelled by its beat.                                                   *)
(***************************************************************************)
HALF_RES_OFFSET == Frac(1, 2)

COMBO_PER_MULTIPLIER_LEVEL == 10

\* The engine descriptors.  The note value, the sustain points per beat and
\* the 0.07 s windows of the Clone Hero engine are those of optimiser.cpp.
ChGuitarEngine ==
    [base_note_value |-> 50, max_multiplier |-> 4,
     sust_points_per_beat |-> 25, round_tick_gap |-> TRUE,
     chords_multiply_sustains |-> FALSE, sustain_rounding |-> "RoundToNearest",
     burst_size |-> Frac(1, 4), timing_window |-> Frac(7, 100),
     has_unison_bonuses |-> FALSE, merge_uneven_sustains |-> FALSE,
     delayed_multiplier |-> FALSE]

Gh1Engine ==
    [base_note_value |-> 50, max_multiplier |-> 4,
     sust_points_per_beat |-> 25, round_tick_gap |-> TRUE,
     chords_multiply_sustains |-> FALSE, sustain_rounding |-> "RoundUp",
     burst_size |-> R(0), timing_window |-> Frac(7, 100),
     has_unison_bonuses |-> FALSE, merge_uneven_sustains |-> TRUE,
     delayed_multiplier |-> TRUE]

RbEngine ==
    [base_note_value |-> 25, max_multiplier |-> 4,
     sust_points_per_beat |-> 12, round_tick_gap |-> FALSE,
     chords_multiply_sustains |-> TRUE, sustain_rounding |-> "RoundToNearest",
     burst_size |-> R(0), timing_window |-> Frac(1, 10),
     has_unison_bonuses |-> TRUE, merge_uneven_sustains |-> TRUE,
     delayed_multiplier |-> FALSE]

Engines == {ChGuitarEngine, Gh1Engine, RbEngine}

early_timing_window(engine, early_gap, late_gap) == engine.timing_window

late_timing_window(engine, early_gap, late_gap) == engine.timing_window

phrase_contains_pos(phrase, position) ==
    IF position < phrase.position THEN FALSE
    ELSE position < phrase.position + phrase.length

\* A mutant of song_tick_gap: the quotient is never floored.
song_tick_gap_not_floored(resolution, engine) ==
    LET quotient == Frac(resolution, engine.sust_points_per_beat)
    IN  IF RLt(quotient, R(1)) THEN R(1) ELSE quotient

song_tick_gap(resolution, engine) ==
    LET quotient == Frac(resolution, engine.sust_points_per_beat)
        rounded == IF engine.round_tick_gap THEN R(RFloor(quotient))
                   ELSE quotient
    IN  IF RLt(rounded, R(1)) THEN R(1) ELSE rounded

\* A mutant of HoldPoint: the base value is 1 whatever the value is.
HoldPointOfBaseOne(beat, value) ==
    [position |-> beat, hit_window_start |-> beat, hit_window_end |-> beat,
     value |-> value, base_value |-> 1, is_hold_point |-> TRUE,
     is_sp_granting_note |-> FALSE, is_unison_sp_ender |-> FALSE]

\* A hold point: {{beat, meas}, {beat, meas}, {beat, meas}, {}, value, value,
\* true, false, false}.
HoldPoint(beat, value) ==
    [position |-> beat, hit_window_start |-> beat, hit_window_end |-> beat,
     value |-> value, base_value |-> value, is_hold_point |-> TRUE,
     is_sp_granting_note |-> FALSE, is_unison_sp_ender |-> FALSE]

\* A mutant of SustainLoop: the ticks left after the loop are dropped.
RECURSIVE SustainLoopWithoutBurstPoint(_, _, _, _, _, _, _)
SustainLoopWithoutBurstPoint(float_pos, float_sust_len, sust_ticks, tick_gap, resolution, engine, out) ==
    IF RLt(RMul(engine.burst_size, R(resolution)), float_sust_len)
       /\ sust_ticks > 0
    THEN LET pos == RAdd(float_pos, tick_gap)
             beat == RDiv(RSub(pos, HALF_RES_OFFSET), R(resolution))
         IN  SustainLoopWithoutBurstPoint(
                 pos, RSub(float_sust_len, tick_gap), sust_ticks - 1,
                 tick_gap, resolution, engine,
                 Append(out, HoldPoint(beat, 1)))
    ELSE out

\* The while loop of append_sustain_points and the point that follows it.
RECURSIVE SustainLoop(_, _, _, _, _, _, _)
SustainLoop(float_pos, float_sust_len, sust_ticks, tick_gap, resolution, engine, out) ==
    IF RLt(RMul(engine.burst_size, R(resolution)), float_sust_len)
       /\ sust_ticks > 0
    THEN LET pos == RAdd(float_pos, tick_gap)
             beat == RDiv(RSub(pos, HALF_RES_OFFSET), R(resolution))
         IN  SustainLoop(pos, RSub(float_sust_len, tick_gap), sust_ticks - 1,
                         tick_gap, resolution, engine,
                         Append(out, HoldPoint(beat, 1)))
    ELSE IF sust_ticks > 0
    THEN Append(out, HoldPoint(RDiv(RAdd(float_pos, HALF_RES_OFFSET),
                                    R(resolution)),
                               sust_ticks))
    ELSE out

append_sustain_points(position, sust_length, resolution, chord_size, engine) ==
    LET gap == song_tick_gap(resolution, engine)
        float_sust_ticks == RDiv(R(sust_length), gap)
        rounded == IF engine.sustain_rounding = "RoundUp"
                   THEN RCeil(float_sust_ticks)
                   ELSE RRound(float_sust_ticks)
        tick_gap == IF engine.chords_multiply_sustains
                    THEN RDiv(gap, R(chord_size)) ELSE gap
        sust_ticks == IF engine.chords_multiply_sustains
                      THEN rounded * chord_size ELSE rounded
    IN  SustainLoop(R(position), R(sust_length), sust_ticks, tick_gap,
                    resolution, engine, <<>>)

\* The loop of append_note_points over the notes of a chord of uneven lengths.
RECURSIVE LaneSustains(_, _, _, _, _, _, _, _)
LaneSustains(notes, p, last, pos, chord_size, resolution, engine, out) ==
    IF p >= last THEN out
    ELSE LaneSustains(notes, p + 1, last, pos, chord_size, resolution, engine,
                      out \o append_sustain_points(pos, notes[p].length,
                                                   resolution, chord_size,
                                                   engine))

\* append_note_points for the chord notes[first .. last - 1]; Len(notes) + 1
\* stands for notes.cend().
append_note_points(notes, first, last, resolution, is_note_sp_ender, is_unison_sp_ender, conv, squeeze, engine) ==
    LET note_value == engine.base_note_value
        chord_size == last - first
        pos == notes[first].position
        beat == Frac(pos, resolution)
        note_seconds == beats_to_seconds(conv, beat)
        early_gap ==
            IF first # 1
            THEN RSub(note_seconds,
                      beats_to_seconds(conv, Frac(notes[first - 1].position,
                                                  resolution)))
            ELSE PosInf
        late_gap ==
            IF last # Len(notes) + 1
            THEN RSub(beats_to_seconds(conv, Frac(notes[last].position,
                                                  resolution)),
                      note_seconds)
            ELSE PosInf
        early_window ==
            RMul(early_timing_window(engine, early_gap, late_gap), squeeze)
        late_window ==
            RMul(late_timing_window(engine, early_gap, late_gap), squeeze)
        early_beat == seconds_to_beats(conv, RSub(note_seconds, early_window))
        late_beat == seconds_to_beats(conv, RAdd(note_seconds, late_window))
        head == [position |-> beat, hit_window_start |-> early_beat,
                 hit_window_end |-> late_beat,
                 value |-> note_value * chord_size,
                 base_value |-> note_value * chord_size,
                 is_hold_point |-> FALSE,
                 is_sp_granting_note |-> is_note_sp_ender,
                 is_unison_sp_ender |-> is_unison_sp_ender]
        lengths == {notes[p].length : p \in first..(last - 1)}
        min_length == CHOOSE l \in lengths : \A m \in lengths : l <= m
        max_length == CHOOSE l \in lengths : \A m \in lengths : m <= l
    IN  IF min_length = max_length \/ engine.merge_uneven_sustains
        THEN <<head>> \o append_sustain_points(pos, min_length, resolution,
                                               chord_size, engine)
        ELSE LaneSustains(notes, first, last, pos, chord_size, resolution,
                          engine, <<head>>)

shift_points_by_video_lag(points, conv, video_lag) ==
    LET add_video_lag(beat) ==
            seconds_to_beats(conv, RAdd(beats_to_seconds(conv, beat),
                                        video_lag))
    IN  [i \in 1..Len(points) |->
            IF points[i].is_hold_point THEN points[i]
            ELSE [points[i] EXCEPT
                     !.position = add_video_lag(@),
                     !.hit_window_start = add_video_lag(@),
                     !.hit_window_end = add_video_lag(@)]]

\* std::find_if_not(p, notes.cend(), same position as *p)
ChordEnd(notes, p) ==
    IF \E x \in p..Len(notes) : notes[x].position # notes[p].position
    THEN CHOOSE x \in p..Len(notes) :
             /\ notes[x].position # notes[p].position
             /\ \A y \in p..(x - 1) : notes[y].position = notes[p].position
    ELSE Len(notes) + 1

\* A mutant of NotePoints: current_phrase is never advanced.
RECURSIVE NotePointsPhraseNotAdvanced(_, _, _, _, _, _, _, _)
NotePointsPhraseNotAdvanced(track, p, current_phrase, conv, unison_phrases, squeeze, engine, points) ==
    IF p > Len(track.notes) THEN points
    ELSE LET notes == track.notes
             phrases == track.sp_phrases
             q == ChordEnd(notes, p)
             is_note_sp_ender ==
                 /\ current_phrase # Len(phrases) + 1
                 /\ phrase_contains_pos(phrases[current_phrase],
                                        notes[p].position)
                 /\ \/ q = Len(notes) + 1
                    \/ ~phrase_contains_pos(phrases[current_phrase],
                                            notes[q].position)
             is_unison_sp_ender ==
                 /\ is_note_sp_ender
                 /\ engine.has_unison_bonuses
                 /\ \E u \in 1..Len(unison_phrases) :
                        unison_phrases[u] = phrases[current_phrase].position
         IN  NotePointsPhraseNotAdvanced(
                 track, q, current_phrase, conv, unison_phrases, squeeze,
                 engine,
                 points \o append_note_points(
                     notes, p, q, track.resolution, is_note_sp_ender,
                     is_unison_sp_ender, conv, squeeze, engine))

\* The loop of points_from_track over the chords of the track.
RECURSIVE NotePoints(_, _, _, _, _, _, _, _)
NotePoints(track, p, current_phrase, conv, unison_phrases, squeeze, engine, points) ==
    IF p > Len(track.notes) THEN points
    ELSE LET notes == track.notes
             phrases == track.sp_phrases
             q == ChordEnd(notes, p)
             is_note_sp_ender ==
                 /\ current_phrase # Len(phrases) + 1
                 /\ phrase_contains_pos(phrases[current_phrase],
                                        notes[p].position)
                 /\ \/ q = Len(notes) + 1
                    \/ ~phrase_contains_pos(phrases[current_phrase],
                                            notes[q].position)
             is_unison_sp_ender ==
                 /\ is_note_sp_ender
                 /\ engine.has_unison_bonuses
                 /\ \E u \in 1..Len(unison_phrases) :
                        unison_phrases[u] = phrases[current_phrase].position
         IN  NotePoints(track, q,
                        IF is_note_sp_ender THEN current_phrase + 1
                        ELSE current_phrase,
                        conv, unison_phrases, squeeze, engine,
                        points \o append_note_points(
                            notes, p, q, track.resolution, is_note_sp_ender,
                            is_unison_sp_ender, conv, squeeze, engine))

\* A mutant of ApplyMultipliers: the engine's delayed_multiplier is ignored.
RECURSIVE ApplyMultipliersNoDelay(_, _, _, _)
ApplyMultipliersNoDelay(points, i, combo, engine) ==
    IF i > Len(points) THEN points
    ELSE LET new_combo == IF ~points[i].is_hold_point THEN combo + 1 ELSE combo
             multiplier == Min(new_combo \div COMBO_PER_MULTIPLIER_LEVEL + 1,
                               engine.max_multiplier)
         IN  ApplyMultipliersNoDelay(
                 [points EXCEPT ![i].value = @ * multiplier],
                 i + 1, new_combo, engine)

\* A mutant of ApplyMultipliers: the delay holds for the hold points too.
RECURSIVE DelayHoldPointsToo(_, _, _, _)
DelayHoldPointsToo(points, i, combo, engine) ==
    IF i > Len(points) THEN points
    ELSE LET new_combo == IF ~points[i].is_hold_point THEN combo + 1 ELSE combo
             multiplier ==
                 IF engine.delayed_multiplier
                 THEN Min((new_combo - 1) \div COMBO_PER_MULTIPLIER_LEVEL + 1,
                          engine.max_multiplier)
                 ELSE Min(new_combo \div COMBO_PER_MULTIPLIER_LEVEL + 1,
                          engine.max_multiplier)
         IN  DelayHoldPointsToo(
                 [points EXCEPT ![i].value = @ * multiplier],
                 i + 1, new_combo, engine)

\* A mutant of ApplyMultipliers: base_value is multiplied along with value.
RECURSIVE MultiplyBaseValueToo(_, _, _, _)
MultiplyBaseValueToo(points, i, combo, engine) ==
    IF i > Len(points) THEN points
    ELSE LET new_combo == IF ~points[i].is_hold_point THEN combo + 1 ELSE combo
             multiplier ==
                 IF ~points[i].is_hold_point /\ engine.delayed_multiplier
                 THEN Min((new_combo - 1) \div COMBO_PER_MULTIPLIER_LEVEL + 1,
                          engine.max_multiplier)
                 ELSE Min(new_combo \div COMBO_PER_MULTIPLIER_LEVEL + 1,
                          engine.max_multiplier)
         IN  MultiplyBaseValueToo(
                 [points EXCEPT ![i].value = @ * multiplier,
                                ![i].base_value = @ * multiplier],
                 i + 1, new_combo, engine)

\* The multiplier pass of points_from_track.
RECURSIVE ApplyMultipliers(_, _, _, _)
ApplyMultipliers(points, i, combo, engine) ==
    IF i > Len(points) THEN points
    ELSE LET point == points[i]
             new_combo == IF ~point.is_hold_point THEN combo + 1 ELSE combo
             multiplier ==
                 IF ~point.is_hold_point /\ engine.delayed_multiplier
                 THEN Min((new_combo - 1) \div COMBO_PER_MULTIPLIER_LEVEL + 1,
                          engine.max_multiplier)
                 ELSE Min(new_combo \div COMBO_PER_MULTIPLIER_LEVEL + 1,
                          engine.max_multiplier)
         IN  ApplyMultipliers(
                 [points EXCEPT ![i].value = @ * multiplier],
                 i + 1, new_combo, engine)

\* std::stable_sort of the points by position.beat.
SortByBeat(points) ==
    StableSort(points, [i, j \in 1..Len(points) |->
                            RLt(points[i].position, points[j].position)])

points_from_track(track, conv, unison_phrases, squeeze_settings, engine) ==
    shift_points_by_video_lag(
        ApplyMultipliers(
            SortByBeat(NotePoints(track, 1, 1, conv, unison_phrases,
                                  squeeze_settings.squeeze, engine, <<>>)),
            1, 0, engine),
        conv, squeeze_settings.video_lag)

\* A mutant of NextMatchingLoop: a point is entered before it is tested, so
\* an entry is the next match strictly after its position.
RECURSIVE NextMatchingAfter(_, _, _, _)
NextMatchingAfter(matches, p, next_matching_point, out) ==
    LET next == IF matches[p] THEN p - 1 ELSE next_matching_point
    IN  IF p = 1 THEN <<next_matching_point>> \o out
        ELSE NextMatchingAfter(matches, p - 1, next,
                               <<next_matching_point>> \o out)

\* The loop of next_matching_vector, from the last point to the first;
\* positions count from 0 and Len(matches) stands for points.cend().
RECURSIVE NextMatchingLoop(_, _, _, _)
NextMatchingLoop(matches, p, next_matching_point, out) ==
    LET next == IF matches[p] THEN p - 1 ELSE next_matching_point
    IN  IF p = 1 THEN <<next>> \o out
        ELSE NextMatchingLoop(matches, p - 1, next, <<next>> \o out)

next_matching_vector(matches) ==
    IF matches = <<>> THEN <<>>
    ELSE NextMatchingLoop(matches, Len(matches), Len(matches), <<>>)

next_non_hold_vector(points) ==
    next_matching_vector([i \in 1..Len(points) |-> ~points[i].is_hold_point])

next_sp_note_vector(points) ==
    next_matching_vector([i \in 1..Len(points) |->
                              points[i].is_sp_granting_note])

\* A mutant of score_totals: the values are stored, not their running sum.
RECURSIVE score_totals_not_summed(_, _, _, _)
score_totals_not_summed(points, p, sum, scores) ==
    IF p > Len(points) THEN scores
    ELSE score_totals_not_summed(points, p + 1, points[p].value,
                                 Append(scores, points[p].value))

\* The loop of score_totals; it starts from scores = <<0>> and sum = 0.
RECURSIVE score_totals(_, _, _, _)
score_totals(points, p, sum, scores) ==
    IF p > Len(points) THEN scores
    ELSE score_totals(points, p + 1, sum + points[p].value,
                      Append(scores, sum + points[p].value))

\* range_score between two positions counted from 0.
range_score(totals, start_index, end_index) ==
    totals[end_index + 1] - totals[start_index + 1]

(***************************************************************************)
(* The tracks, tempo maps and settings a PointSet is built from.           *)
(***************************************************************************)
PointResolution == DEFAULT_RESOLUTION

PointNotes ==
    [position : {0, PointResolution \div 2},
     length : {0, 56}, colour : {"Green", "Red"}]

\* The notes of a NoteTrack: sorted, one note for a position and a colour.
RECURSIVE NoteSeq(_)
NoteSeq(set) ==
    IF set = {} THEN <<>>
    ELSE LET first == CHOOSE x \in set : \A y \in set \ {x} : NoteLess(x, y)
         IN  <<first>> \o NoteSeq(set \ {first})

PointNoteSets ==
    {set \in SUBSET PointNotes :
        /\ Cardinality(set) <= MaxPointNotes
        /\ \A x, y \in set :
               x # y => x.position # y.position \/ x.colour # y.colour}

PointPhraseInputs ==
    {<<>>,
     <<[position |-> 0, length |-> 50]>>,
     <<[position |-> 0, length |-> 150]>>,
     <<[position |-> 0, length |-> 50],
       [position |-> PointResolution \div 2, length |-> 200]>>}

\* The tempo maps: 120 BPM throughout, a change to 60 BPM half a beat in, and
\* the 0 BPM that read_sync_track lets through, from tick 0.
PointBpmInputs ==
    {<<>>,
     <<[position |-> PointResolution \div 2, bpm |-> DEFAULT_BPM \div 2]>>,
     <<[position |-> 0, bpm |-> 0]>>}

PointTracks ==
    {[notes |-> NoteSeq(set),
      sp_phrases |-> NoteTrackPhrases(phrases, NoteSeq(set)),
      resolution |-> PointResolution] :
        set \in PointNoteSets, phrases \in PointPhraseInputs}

\* The tracks that reach the multiplier levels: MaxLongChords chords half a
\* beat apart, the first of chord_size notes, the others single notes; when
\* sustained, the 9th and 10th chord of every ten are held for 14 ticks.
ChordColours == <<"Green", "Red", "Yellow", "Blue", "Orange">>

LongNotes(chord_size, sustained) ==
    LET length(k) == IF sustained /\ k % COMBO_PER_MULTIPLIER_LEVEL \in {9, 0}
                     THEN 14 ELSE 0
    IN  [c \in 1..chord_size |->
            [position |-> 0, length |-> length(1), colour |-> ChordColours[c]]]
        \o [k \in 1..(MaxLongChords - 1) |->
               [position |-> k * (PointResolution \div 2),
                length |-> length(k + 1), colour |-> "Green"]]

LongTracks ==
    {[notes |-> LongNotes(chord_size, sustained), sp_phrases |-> <<>>,
      resolution |-> PointResolution] :
        chord_size \in 1..MaxChordSize, sustained \in BOOLEAN}

PointConverters ==
    {TimeConverter(SyncTrack(<<>>, bpms), PointResolution) :
        bpms \in PointBpmInputs}

\* SqueezeSettings: squeeze in [0, 1], video_lag in seconds.
PointSqueezeSettings ==
    [squeeze : {R(0), Frac(1, 2), R(1)},
     video_lag : {Frac(-1, 5), R(0), Frac(1, 20)}]

\* The phrase at tick 0 is a unison phrase, a later one is not.
PointUnisonPhrases == {<<0>>}

NoTrack == [notes |-> <<>>, sp_phrases |-> <<>>, resolution |-> PointResolution]

PointsIdle ==
    /\ points_stage = "idle"
    /\ pt_track = NoTrack
    /\ pt_converter = NoConverter
    /\ pt_unison_phrases = <<>>
    /\ pt_squeeze_settings = [squeeze |-> R(1), video_lag |-> R(0)]
    /\ pt_engine = ChGuitarEngine
    /\ m_points = <<>>
    /\ m_next_non_hold_point = <<>>
    /\ m_next_sp_granting_note = <<>>
    /\ m_cumulative_score_totals = <<>>

\* PointSet::PointSet: the points and the vectors computed from them.
ConstructPointSet ==
    /\ points_stage = "input"
    /\ points_stage' = "built"
    /\ m_points' = points_from_track(pt_track, pt_converter, pt_unison_phrases,
                                     pt_squeeze_settings, pt_engine)
    /\ m_next_non_hold_point' = next_non_hold_vector(m_points')
    /\ m_next_sp_granting_note' = next_sp_note_vector(m_points')
    /\ m_cumulative_score_totals' = score_totals(m_points', 1, 0, <<0>>)
    /\ UNCHANGED <<pt_track, pt_converter, pt_unison_phrases,
                   pt_squeeze_settings, pt_engine>>
    /\ UNCHANGED <<trackVars, syncVars, settingsVars,
                   chartVars, sustainVars, candidateVars, imageVars, drumsVars, midiVars, soloVars>>

(***************************************************************************)
(* One call of append_sustain_points                                       *)
(***************************************************************************)
\* The sustain lengths of the calls, in ticks.
SustainLengths == {0, 1, 56, 96}

\* What song_tick_gap and append_sustain_points read of the Engine.
SustainEngines ==
    [sust_points_per_beat : {12, 25},
     round_tick_gap : BOOLEAN,
     chords_multiply_sustains : BOOLEAN,
     sustain_rounding : {"RoundUp", "RoundToNearest"},
     burst_size : {R(0), Frac(1, 4)}]

SustainCalls ==
    [position : {0, 96},
     sust_length : SustainLengths,
     resolution : {PointResolution},
     chord_size : 1..MaxChordSize,
     engine : SustainEngines]

NoSustainCall ==
    [position |-> 0, sust_length |-> 0, resolution |-> PointResolution,
     chord_size |-> 1,
     engine |-> [sust_points_per_beat |-> 25, round_tick_gap |-> TRUE,
                 chords_multiply_sustains |-> FALSE,
                 sustain_rounding |-> "RoundToNearest",
                 burst_size |-> Frac(1, 4)]]

SustainIdle ==
    /\ sust_stage = "idle"
    /\ sust_call = NoSustainCall
    /\ sust_points = <<>>

\* append_sustain_points(points, position, sust_length, resolution,
\* chord_size, converter, engine) on an empty output.
AppendSustainPoints ==
    /\ sust_stage = "input"
    /\ sust_stage' = "appended"
    /\ sust_points' = append_sustain_points(
                          sust_call.position, sust_call.sust_length,
                          sust_call.resolution, sust_call.chord_size,
                          sust_call.engine)
    /\ UNCHANGED sust_call
    /\ UNCHANGED <<trackVars, syncVars, settingsVars,
                   chartVars, pointsVars, candidateVars, imageVars, drumsVars, midiVars, soloVars>>

(***************************************************************************)
(* ProcessedSong::is_candidate_valid                                       *)
(***************************************************************************)
\* enum class ActValidity { success, insufficient_sp, surplus_sp }
ActValidity == {"success", "insufficient_sp", "surplus_sp"}

\* struct ActResult { Position ending_position; ActValidity validity; }
ActResult(ending_position, validity) ==
    [ending_position |-> ending_position, validity |-> validity]

\* A bar of Star Power lasts 8 measures, 32 beats without time signatures.
MEASURES_PER_BAR == 8
BEATS_PER_MEASURE == 4

\* The least amount of Star Power an activation starts with: half a bar.
MINIMUM_SP_AMOUNT == Frac(1, 2)

NegInf == RNeg(PosInf)

RMax(a, b) == IF RLt(a, b) THEN b ELSE a

\* The position (100 - squeeze)% along the start of the point's timing window.
adjusted_hit_window_start(point, squeeze) ==
    RAdd(point.hit_window_start,
         RMul(RSub(point.position, point.hit_window_start),
              RSub(R(1), squeeze)))

\* The position squeeze% along the end of the point's timing window.
adjusted_hit_window_end(point, squeeze) ==
    RAdd(point.position,
         RMul(RSub(point.hit_window_end, point.position), squeeze))

\* The bar left of `amount` after the beats from start to end, never below 0;
\* the song of the calls has no whammy to add.
DrainedOver(amount, start, end) ==
    RMax(R(0), RSub(amount, RDiv(RSub(end, start),
                                R(MEASURES_PER_BAR * BEATS_PER_MEASURE))))

\* The beat at which a bar of `amount` at `start` reaches zero.
activation_end_point(start, amount) ==
    RAdd(start, RMul(amount, R(MEASURES_PER_BAR * BEATS_PER_MEASURE)))

\* A mutant of is_candidate_valid: the threshold is tested on sp_bar.max.
is_candidate_valid_by_max(activation, squeeze, required_whammy_end, overlaps) ==
    IF RLt(activation.sp_bar.max, MINIMUM_SP_AMOUNT)
    THEN ActResult(R(0), "insufficient_sp")
    ELSE ActResult(adjusted_hit_window_end(activation.act_end, squeeze),
                   "success")

is_candidate_valid(activation, squeeze, required_whammy_end, overlaps) ==
    IF RLt(activation.sp_bar.min, MINIMUM_SP_AMOUNT)
    THEN ActResult(R(0), "insufficient_sp")
    ELSE LET act_position ==
                 RMax(adjusted_hit_window_start(activation.act_start, squeeze),
                      activation.earliest_activation_point)
             min_at_start ==
                 DrainedOver(activation.sp_bar.min,
                             activation.earliest_activation_point,
                             act_position)
             max_at_start ==
                 DrainedOver(activation.sp_bar.max,
                             activation.earliest_activation_point,
                             act_position)
             end_min == activation_end_point(act_position, min_at_start)
             end_max == activation_end_point(act_position, max_at_start)
             earliest_end ==
                 adjusted_hit_window_start(activation.act_end, squeeze)
             latest_end ==
                 adjusted_hit_window_end(activation.act_end, squeeze)
         IN  IF RLt(end_max, earliest_end)
             THEN ActResult(R(0), "insufficient_sp")
             ELSE IF RLt(latest_end, end_min)
             THEN IF overlaps
                  THEN ActResult(activation.act_end.hit_window_end, "success")
                  ELSE ActResult(R(0), "surplus_sp")
             ELSE ActResult(RMax(end_min, earliest_end), "success")

\* The points an activation may start or end on, with their timing windows.
CandidatePoints ==
    {[position |-> R(beat), hit_window_start |-> RSub(R(beat), Frac(7, 50)),
      hit_window_end |-> RAdd(R(beat), Frac(7, 50))] : beat \in {0, 2, 18}}

SpBarAmounts == {R(0), Frac(1, 4), Frac(1, 2), R(1)}

\* struct SpBar: min never above max.
SpBars == {bar \in [min : SpBarAmounts, max : SpBarAmounts] :
               RLe(bar.min, bar.max)}

\* struct ActivationCandidate: act_end is never before act_start.
ActivationCandidates ==
    {c \in [act_start : CandidatePoints,
            act_end : CandidatePoints,
            earliest_activation_point : {R(0), R(2)},
            sp_bar : SpBars] :
         RLe(c.act_start.position, c.act_end.position)}

CandidateCalls ==
    [activation : ActivationCandidates,
     squeeze : {R(0), R(1)},
     required_whammy_end : {NegInf, R(2)}]

NoCandidateCall ==
    [activation |->
         [act_start |-> [position |-> R(0), hit_window_start |-> R(0),
                         hit_window_end |-> R(0)],
          act_end |-> [position |-> R(0), hit_window_start |-> R(0),
                       hit_window_end |-> R(0)],
          earliest_activation_point |-> R(0),
          sp_bar |-> [min |-> R(0), max |-> R(0)]],
     squeeze |-> R(1),
     required_whammy_end |-> NegInf]

CandidateIdle ==
    /\ cand_stage = "idle"
    /\ cand_call = NoCandidateCall
    /\ cand_overlaps = FALSE
    /\ act_result = ActResult(R(0), "success")

\* One call of ProcessedSong::is_candidate_valid.
IsCandidateValid ==
    /\ cand_stage = "input"
    /\ cand_stage' = "answered"
    /\ act_result' = is_candidate_valid(cand_call.activation, cand_call.squeeze,
                                        cand_call.required_whammy_end,
                                        cand_overlaps)
    /\ UNCHANGED <<cand_call, cand_overlaps>>
    /\ UNCHANGED <<trackVars, syncVars, settingsVars,
                   chartVars, pointsVars, sustainVars, imageVars, drumsVars, midiVars, soloVars>>

(***************************************************************************)
(* DrawingInstructions: the rows, the lines and the green ranges           *)
(***************************************************************************)
MAX_BEATS_PER_LINE == 16

BASE_BEAT_RATE == 4

BASE_NUMERATOR == 4

HALF_BEAT == Frac(1, 2)

\* std::find_if over time_sigs() for the first x with
\* x.position > resolution * beat, as an index; Len + 1 stands for cend().
FirstTimeSigAfter(sync, resolution, beat) ==
    LET later == {i \in 1..Len(sync.time_sigs) :
                     RLt(RMul(R(resolution), beat),
                         R(sync.time_sigs[i].position))}
    IN  IF later = {} THEN Len(sync.time_sigs) + 1
        ELSE CHOOSE i \in later : \A j \in later : i <= j

\* A mutant of get_beat_rate: the denominator is left out.
get_beat_rate_of_numerator(sync, resolution, beat) ==
    LET ts == FirstTimeSigAfter(sync, resolution, beat)
    IN  IF ts = 1 THEN R(BASE_BEAT_RATE)
        ELSE R(sync.time_sigs[ts - 1].numerator)

get_beat_rate(sync, resolution, beat) ==
    LET ts == FirstTimeSigAfter(sync, resolution, beat)
    IN  IF ts = 1 THEN R(BASE_BEAT_RATE)
        ELSE RDiv(RMul(R(BASE_BEAT_RATE),
                       R(sync.time_sigs[ts - 1].numerator)),
                  R(sync.time_sigs[ts - 1].denominator))

get_numer(sync, resolution, beat) ==
    LET ts == FirstTimeSigAfter(sync, resolution, beat)
    IN  IF ts = 1 THEN BASE_NUMERATOR
        ELSE sync.time_sigs[ts - 1].numerator

get_denom(sync, resolution, beat) ==
    LET ts == FirstTimeSigAfter(sync, resolution, beat)
    IN  IF ts = 1 THEN R(1)
        ELSE RDiv(R(BASE_BEAT_RATE), R(sync.time_sigs[ts - 1].denominator))

\* struct DrawnRow { double start; double end; }
DrawnRow(start, end) == [start |-> start, end |-> end]

\* drawn_rows: max_pos over the notes, as a beat.
RECURSIVE MaxPos(_, _, _)
MaxPos(notes, p, max_pos) ==
    IF p > Len(notes) THEN max_pos
    ELSE LET length == notes[p].position + notes[p].length
         IN  MaxPos(notes, p + 1, IF length > max_pos THEN length ELSE max_pos)

max_beat == Frac(MaxPos(img_track.notes, 1, 0), img_track.resolution)

\* drawn_rows: "Break up a measure that spans more than a full row."
RECURSIVE SplitLongMeasure(_, _, _)
SplitLongMeasure(beat, contribution, rows) ==
    IF RLt(R(MAX_BEATS_PER_LINE), contribution)
    THEN SplitLongMeasure(
             RAdd(beat, R(MAX_BEATS_PER_LINE)),
             RSub(contribution, R(MAX_BEATS_PER_LINE)),
             Append(rows, DrawnRow(beat, RAdd(beat, R(MAX_BEATS_PER_LINE)))))
    ELSE [current_beat |-> beat, contribution |-> contribution, rows |-> rows]

\* The notes, phrases and time signatures of the images.
ImageResolution == DEFAULT_RESOLUTION

ImageNotes ==
    [position : {0, 767, 960, 3840}, length : {0, 96}, colour : {"Green"}]

ImageNoteSets ==
    {set \in SUBSET ImageNotes :
        /\ Cardinality(set) <= MaxImageNotes
        /\ \A x, y \in set : x # y => x.position # y.position}

ImagePhraseInputs ==
    {<<>>,
     <<[position |-> 768, length |-> 384]>>,
     <<[position |-> 0, length |-> 100], [position |-> 960, length |-> 50]>>}

ImageTracks ==
    {[notes |-> NoteSeq(set),
      sp_phrases |-> NoteTrackPhrases(phrases, NoteSeq(set)),
      resolution |-> ImageResolution] :
        set \in ImageNoteSets, phrases \in ImagePhraseInputs}

\* The time signatures read_sync_track can hand over: 4/4 by default, 3/4,
\* 3/8, measures of 17, 20 and 32 beats, changes at beats 4 and 10, and a
\* numerator of 0.
ImageTimeSigInputs ==
    {<<>>,
     <<[position |-> 0, numerator |-> 3, denominator |-> 4]>>,
     <<[position |-> 0, numerator |-> 3, denominator |-> 8]>>,
     <<[position |-> 0, numerator |-> 17, denominator |-> 4]>>,
     <<[position |-> 0, numerator |-> 5, denominator |-> 1]>>,
     <<[position |-> 0, numerator |-> 8, denominator |-> 1]>>,
     <<[position |-> 768, numerator |-> 3, denominator |-> 4]>>,
     <<[position |-> 768, numerator |-> 3, denominator |-> 8],
       [position |-> 1920, numerator |-> 5, denominator |-> 1]>>,
     <<[position |-> 0, numerator |-> 5, denominator |-> 1],
       [position |-> 1920, numerator |-> 3, denominator |-> 4]>>,
     <<[position |-> 0, numerator |-> 0, denominator |-> 4]>>,
     <<[position |-> 768, numerator |-> 0, denominator |-> 4]>>,
     <<[position |-> 0, numerator |-> 5, denominator |-> 1],
       [position |-> 1920, numerator |-> 0, denominator |-> 4]>>}

ImageSyncTracks == {SyncTrack(time_sigs, <<>>) : time_sigs \in ImageTimeSigInputs}

ImageIdle ==
    /\ img_pc = "idle"
    /\ img_track = NoTrack
    /\ img_sync_track = NoSyncTrack
    /\ current_beat = R(0)
    /\ row_length = R(0)
    /\ m_rows = <<>>
    /\ line_row = 0
    /\ line_start = R(0)
    /\ m_measure_lines = <<>>
    /\ m_beat_lines = <<>>
    /\ m_half_beat_lines = <<>>
    /\ m_green_ranges = <<>>
    /\ col_start = R(0)
    /\ col_end = R(0)
    /\ row_iter = 1
    /\ read_past_rows = FALSE

\* drawn_rows up to its outer loop.
BeginDrawnRows ==
    /\ img_pc = "input"
    /\ img_pc' = "outer"
    /\ current_beat' = R(0)
    /\ m_rows' = <<>>
    /\ UNCHANGED <<col_start, col_end, row_iter, read_past_rows>>
    /\ UNCHANGED <<img_track, img_sync_track, row_length, line_row, line_start,
                   m_measure_lines, m_beat_lines, m_half_beat_lines,
                   m_green_ranges>>
    /\ UNCHANGED <<trackVars, syncVars, settingsVars,
                   chartVars, pointsVars, sustainVars, candidateVars, drumsVars, midiVars, soloVars>>

\* while (current_beat <= max_beat): a new row, or the rows are returned and
\* the constructor turns to the first of them.
OuterLoop ==
    /\ img_pc = "outer"
    /\ IF RLe(current_beat, max_beat)
       THEN /\ img_pc' = "inner"
            /\ row_length' = R(0)
            /\ UNCHANGED <<line_row, line_start>>
       ELSE /\ img_pc' = "lines"
            /\ line_row' = 1
            /\ line_start' = IF m_rows = <<>> THEN R(0) ELSE m_rows[1].start
            /\ UNCHANGED row_length
    /\ UNCHANGED <<col_start, col_end, row_iter, read_past_rows>>
    /\ UNCHANGED <<img_track, img_sync_track, current_beat, m_rows,
                   m_measure_lines, m_beat_lines, m_half_beat_lines,
                   m_green_ranges>>
    /\ UNCHANGED <<trackVars, syncVars, settingsVars,
                   chartVars, pointsVars, sustainVars, candidateVars, drumsVars, midiVars, soloVars>>

\* One round of the while (true) of drawn_rows; on a break the row is pushed.
RowStep ==
    /\ img_pc = "inner"
    /\ \E beat \in {RAdd(current_beat, row_length)} :
       \E rate \in {get_beat_rate(img_sync_track, img_track.resolution,
                                   beat)} :
       \E split \in {IF RLt(R(MAX_BEATS_PER_LINE), rate) /\ row_length = R(0)
                     THEN SplitLongMeasure(current_beat, rate, m_rows)
                     ELSE [current_beat |-> current_beat,
                           contribution |-> rate, rows |-> m_rows]} :
       \E full \in {RLt(R(MAX_BEATS_PER_LINE),
                         RAdd(split.contribution, row_length))} :
       \E length \in {IF full THEN row_length
                      ELSE RAdd(row_length, split.contribution)} :
       \E past \in {RLt(max_beat, RAdd(split.current_beat, length))} :
           IF full \/ past
           THEN /\ img_pc' = "outer"
                /\ m_rows' = Append(split.rows,
                                    DrawnRow(split.current_beat,
                                             RAdd(split.current_beat, length)))
                /\ current_beat' = RAdd(split.current_beat, length)
                /\ row_length' = length
           ELSE /\ img_pc' = "inner"
                /\ m_rows' = split.rows
                /\ current_beat' = split.current_beat
                /\ row_length' = length
    /\ UNCHANGED <<col_start, col_end, row_iter, read_past_rows>>
    /\ UNCHANGED <<img_track, img_sync_track, line_row, line_start,
                   m_measure_lines, m_beat_lines, m_half_beat_lines,
                   m_green_ranges>>
    /\ UNCHANGED <<trackVars, syncVars, settingsVars,
                   chartVars, pointsVars, sustainVars, candidateVars, drumsVars, midiVars, soloVars>>

\* The constructor's loops: the lines of one measure, or the next row.
MeasureStep ==
    /\ img_pc = "lines"
    /\ Len(m_measure_lines) < MaxMeasureLines
    /\ IF line_row > Len(m_rows)
       THEN /\ img_pc' = "built"
            /\ UNCHANGED <<line_row, line_start, m_measure_lines, m_beat_lines,
                           m_half_beat_lines>>
       ELSE IF RLt(line_start, m_rows[line_row].end)
       THEN \E meas_length \in {get_beat_rate(img_sync_track,
                                               img_track.resolution,
                                               line_start)},
               numer \in {get_numer(img_sync_track, img_track.resolution,
                                    line_start)},
               denom \in {get_denom(img_sync_track, img_track.resolution,
                                    line_start)} :
                /\ m_measure_lines' = Append(m_measure_lines, line_start)
                /\ m_beat_lines' =
                       m_beat_lines
                       \o [i \in 1..(numer - 1) |->
                              RAdd(line_start, RMul(R(i), denom))]
                /\ m_half_beat_lines' =
                       Append(m_half_beat_lines,
                              RAdd(line_start, RMul(HALF_BEAT, denom)))
                       \o [i \in 1..(numer - 1) |->
                              RAdd(line_start,
                                   RMul(RAdd(R(i), HALF_BEAT), denom))]
                /\ line_start' = RAdd(line_start, meas_length)
                /\ UNCHANGED <<img_pc, line_row>>
       ELSE /\ line_row' = line_row + 1
            /\ line_start' = IF line_row + 1 > Len(m_rows) THEN line_start
                             ELSE m_rows[line_row + 1].start
            /\ UNCHANGED <<img_pc, m_measure_lines, m_beat_lines,
                           m_half_beat_lines>>
    /\ UNCHANGED <<col_start, col_end, row_iter, read_past_rows>>
    /\ UNCHANGED <<img_track, img_sync_track, current_beat, row_length, m_rows,
                   m_green_ranges>>
    /\ UNCHANGED <<trackVars, syncVars, settingsVars,
                   chartVars, pointsVars, sustainVars, candidateVars, drumsVars, midiVars, soloVars>>

\* DrawingInstructions::add_sp_phrases, on empty m_green_ranges.
add_sp_phrases(track, resolution) ==
    [i \in 1..Len(track.sp_phrases) |->
        <<Frac(track.sp_phrases[i].position, resolution),
          Frac(track.sp_phrases[i].position + track.sp_phrases[i].length,
               resolution)>>]

AddSpPhrases ==
    /\ img_pc = "built"
    /\ img_pc' = "done"
    /\ m_green_ranges' = m_green_ranges
                         \o add_sp_phrases(img_track, img_track.resolution)
    /\ UNCHANGED <<col_start, col_end, row_iter, read_past_rows>>
    /\ UNCHANGED <<img_track, img_sync_track, current_beat, row_length, m_rows,
                   line_row, line_start, m_measure_lines, m_beat_lines,
                   m_half_beat_lines>>
    /\ UNCHANGED <<trackVars, syncVars, settingsVars,
                   chartVars, pointsVars, sustainVars, candidateVars, drumsVars, midiVars, soloVars>>

\* The beat ranges Image::Image colours: the sustains of the notes, the
\* solos, the green ranges of the SP phrases and the blue ranges of the
\* activations, which start and end at a note.
ImageSolos ==
    {[start |-> 0, end |-> 960, value |-> 100],
     [start |-> 0, end |-> 1600, value |-> 50]}

\* add_solo_sections, for the solos a track of these notes can have.
SoloRanges(track, resolution) ==
    {<<Frac(solo.start, resolution), Frac(solo.end, resolution)>> :
        solo \in {x \in ImageSolos :
                     \E n \in 1..Len(track.notes) :
                         /\ x.start <= track.notes[n].position
                         /\ track.notes[n].position <= x.end}}

\* draw_note_sustain: x_range {note.beat, note.beat + note.length}.
SustainRanges(track, resolution) ==
    {<<Frac(track.notes[n].position, resolution),
       Frac(track.notes[n].position + track.notes[n].length, resolution)>> :
        n \in 1..Len(track.notes)}

\* add_sp_acts: from the point of a note to the point of a later note.
BlueRanges(track, resolution) ==
    UNION {{<<Frac(track.notes[n].position, resolution),
              Frac(track.notes[m].position, resolution)>> :
               m \in n..Len(track.notes)} : n \in 1..Len(track.notes)}

\* std::find_if(rows.cbegin(), rows.cend(), r.end > start), as an index.
FirstRowEndingAfter(rows, start) ==
    LET after == {r \in 1..Len(rows) : RLt(start, rows[r].end)}
    IN  IF after = {} THEN Len(rows) + 1
        ELSE CHOOSE r \in after : \A o \in after : r <= o

\* The ends a row that is read at or after cend() may turn out to have.
RowEndsPastRows == {R(0), R(1000)}

\* colour_beat_range up to its loop, for one of the ranges of the image.
BeginColourBeatRange ==
    /\ img_pc = "done"
    /\ img_pc' = "colour"
    /\ \E x_range \in SoloRanges(img_track, img_track.resolution)
                       \cup SustainRanges(img_track, img_track.resolution)
                       \cup {m_green_ranges[g] : g \in 1..Len(m_green_ranges)}
                       \cup BlueRanges(img_track, img_track.resolution) :
           /\ col_start' = x_range[1]
           /\ col_end' = x_range[2]
           /\ row_iter' = FirstRowEndingAfter(m_rows, x_range[1])
    /\ UNCHANGED read_past_rows
    /\ UNCHANGED <<img_track, img_sync_track, current_beat, row_length, m_rows,
                   line_row, line_start, m_measure_lines, m_beat_lines,
                   m_half_beat_lines, m_green_ranges>>
    /\ UNCHANGED <<trackVars, syncVars, settingsVars, chartVars, pointsVars, sustainVars, candidateVars, drumsVars, midiVars, soloVars>>

\* One round of while (start < end), or the return.  A row_iter at or after
\* cend() is dereferenced all the same: the program crashes, or goes on with
\* whatever it reads as the end of the row.
ColourBlock ==
    /\ img_pc = "colour"
    /\ IF ~RLt(col_start, col_end)
       THEN /\ img_pc' = "coloured"
            /\ UNCHANGED <<col_start, row_iter, read_past_rows>>
       ELSE IF row_iter <= Len(m_rows)
       THEN /\ col_start' = IF RLt(col_end, m_rows[row_iter].end)
                            THEN col_end ELSE m_rows[row_iter].end
            /\ row_iter' = row_iter + 1
            /\ UNCHANGED <<img_pc, read_past_rows>>
       ELSE /\ read_past_rows' = TRUE
            /\ \/ /\ img_pc' = "crashed"
                  /\ UNCHANGED <<col_start, row_iter>>
               \/ /\ row_iter < Len(m_rows) + MaxReadsPastRows
                  /\ \E row_end \in RowEndsPastRows :
                         col_start' = IF RLt(col_end, row_end)
                                      THEN col_end ELSE row_end
                  /\ row_iter' = row_iter + 1
                  /\ UNCHANGED img_pc
    /\ UNCHANGED col_end
    /\ UNCHANGED <<img_track, img_sync_track, current_beat, row_length, m_rows,
                   line_row, line_start, m_measure_lines, m_beat_lines,
                   m_half_beat_lines, m_green_ranges>>
    /\ UNCHANGED <<trackVars, syncVars, settingsVars, chartVars, pointsVars, sustainVars, candidateVars, drumsVars, midiVars, soloVars>>

(***************************************************************************)
(* The points of a drum track: points_from_track of                       *)
(* NoteTrack<DrumNoteColour>, where a kick the settings leave out is no    *)
(* note, every other note is a point of its own, and the drum fills mark   *)
(* the points an activation can start at.                                  *)
(***************************************************************************)

skip_kick(colour, dsettings) ==
    IF colour = "Kick" THEN dsettings.disable_kick
    ELSE IF colour = "DoubleKick" THEN ~dsettings.enable_double_kick
    ELSE FALSE

is_kick_colour(colour) == colour = "Kick" \/ colour = "DoubleKick"

\* The instantiation of get_chord_size for DrumNoteColour.
get_chord_size(notes, first, last, dsettings) ==
    Cardinality({p \in first..(last - 1) : ~skip_kick(notes[p].colour, dsettings)})

\* append_note_points for notes[first .. last - 1] of a drum track, whose
\* colours are neither cymbals nor accents or ghosts; the point's
\* fill_start is an empty optional, written <<>>.
append_drum_note_points(notes, first, last, resolution, is_note_sp_ender, is_unison_sp_ender, conv, squeeze, engine, dsettings) ==
    LET note_value == engine.base_note_value
        chord_size == get_chord_size(notes, first, last, dsettings)
        pos == notes[first].position
        beat == Frac(pos, resolution)
        note_seconds == beats_to_seconds(conv, beat)
        early_gap ==
            IF first # 1
            THEN RSub(note_seconds,
                      beats_to_seconds(conv, Frac(notes[first - 1].position,
                                                  resolution)))
            ELSE PosInf
        late_gap ==
            IF last # Len(notes) + 1
            THEN RSub(beats_to_seconds(conv, Frac(notes[last].position,
                                                  resolution)),
                      note_seconds)
            ELSE PosInf
        early_window ==
            RMul(early_timing_window(engine, early_gap, late_gap), squeeze)
        late_window ==
            RMul(late_timing_window(engine, early_gap, late_gap), squeeze)
        early_beat == seconds_to_beats(conv, RSub(note_seconds, early_window))
        late_beat == seconds_to_beats(conv, RAdd(note_seconds, late_window))
        head == [position |-> beat, hit_window_start |-> early_beat,
                 hit_window_end |-> late_beat, fill_start |-> <<>>,
                 value |-> note_value * chord_size,
                 base_value |-> note_value * chord_size,
                 is_hold_point |-> FALSE,
                 is_sp_granting_note |-> is_note_sp_ender,
                 is_unison_sp_ender |-> is_unison_sp_ender]
        lengths == {notes[p].length : p \in first..(last - 1)}
        min_length == CHOOSE l \in lengths : \A m \in lengths : l <= m
        sustain ==
            append_sustain_points(pos, min_length, resolution, chord_size,
                                  engine)
    IN  <<head>> \o [i \in 1..Len(sustain) |->
                        [position |-> sustain[i].position,
                         hit_window_start |-> sustain[i].hit_window_start,
                         hit_window_end |-> sustain[i].hit_window_end,
                         fill_start |-> <<>>,
                         value |-> sustain[i].value,
                         base_value |-> sustain[i].base_value,
                         is_hold_point |-> TRUE,
                         is_sp_granting_note |-> FALSE,
                         is_unison_sp_ender |-> FALSE]]

\* std::find_if_not(from, notes.cend(), skip_kick): the first note from
\* `from` on that is not skipped, Len(notes) + 1 standing for notes.cend().
RECURSIVE NextUnskipped(_, _, _)
NextUnskipped(notes, from, dsettings) ==
    IF from > Len(notes) THEN Len(notes) + 1
    ELSE IF ~skip_kick(notes[from].colour, dsettings) THEN from
    ELSE NextUnskipped(notes, from + 1, dsettings)

\* The loop over the notes of the drum points_from_track, from note p with
\* the phrase iterator at current_phrase.
RECURSIVE DrumNotePoints(_, _, _, _, _, _, _, _, _)
DrumNotePoints(track, p, current_phrase, conv, unison_phrases, squeeze, dsettings, engine, points) ==
    LET notes == track.notes
        phrases == track.sp_phrases
    IN  IF p > Len(notes) THEN points
        ELSE IF skip_kick(notes[p].colour, dsettings)
        THEN DrumNotePoints(track, p + 1, current_phrase, conv,
                            unison_phrases, squeeze, dsettings, engine, points)
        ELSE
        LET q == NextUnskipped(notes, p + 1, dsettings)
            ends_phrase ==
                /\ current_phrase <= Len(phrases)
                /\ phrase_contains_pos(phrases[current_phrase],
                                       notes[p].position)
                /\ \/ q = Len(notes) + 1
                   \/ ~phrase_contains_pos(phrases[current_phrase],
                                           notes[q].position)
            is_unison ==
                /\ ends_phrase
                /\ engine.has_unison_bonuses
                /\ phrases[current_phrase].position \in unison_phrases
        IN  DrumNotePoints(
                track, q,
                IF ends_phrase THEN current_phrase + 1 ELSE current_phrase,
                conv, unison_phrases, squeeze, dsettings, engine,
                points \o append_drum_note_points(
                              notes, p, q, track.resolution, ends_phrase,
                              is_unison, conv, squeeze, engine, dsettings))

\* |a - b| of two beats.
BeatGap(a, b) == IF RLt(a, b) THEN RSub(b, a) ELSE RSub(a, b)

\* The loop of closest_point from the point p on, nearest being the best
\* point so far.
RECURSIVE ClosestLoop(_, _, _, _)
ClosestLoop(points, fill_end, nearest, p) ==
    IF p > Len(points) THEN nearest
    ELSE IF RLe(points[p].position, points[nearest].position)
    THEN ClosestLoop(points, fill_end, nearest, p + 1)
    ELSE IF RLt(BeatGap(points[nearest].position, fill_end),
                BeatGap(points[p].position, fill_end))
    THEN nearest
    ELSE ClosestLoop(points, fill_end, p, p + 1)

\* A mutant of closest_point: of two points as close, the earlier one.
closest_point_earlier_on_tie(points, fill_end) ==
    LET best == ClosestLoop(points, fill_end, 1, 2)
        gap(p) == BeatGap(points[p].position, fill_end)
    IN  CHOOSE p \in 1..Len(points) :
            /\ REq(gap(p), gap(best))
            /\ \A o \in 1..Len(points) :
                   REq(gap(o), gap(best)) => p <= o

closest_point(points, fill_end) == ClosestLoop(points, fill_end, 1, 2)

\* The loop over the fills of add_drum_activation_points.
RECURSIVE AddFills(_, _, _, _)
AddFills(track, conv, points, f) ==
    IF f > Len(track.drum_fills) THEN points
    ELSE
    LET fill == track.drum_fills[f]
        fill_start == Frac(fill.position, track.resolution)
        fill_end == Frac(fill.position + fill.length, track.resolution)
        best_point == closest_point(points, fill_end)
        has_non_kick ==
            \E n \in 1..Len(track.notes) :
                /\ ~is_kick_colour(track.notes[n].colour)
                /\ REq(Frac(track.notes[n].position, track.resolution),
                       points[best_point].position)
    IN  AddFills(track, conv,
                 IF has_non_kick
                 THEN [points EXCEPT ![best_point].fill_start =
                                         <<beats_to_seconds(conv, fill_start)>>]
                 ELSE points,
                 f + 1)

add_drum_activation_points(track, conv, points) ==
    IF points = <<>> THEN points ELSE AddFills(track, conv, points, 1)

\* The multiplier pass of the drum points_from_track.
RECURSIVE DrumMultipliers(_, _, _, _)
DrumMultipliers(points, i, combo, engine) ==
    IF i > Len(points) THEN points
    ELSE LET new_combo == IF ~points[i].is_hold_point THEN combo + 1 ELSE combo
             multiplier == Min(new_combo \div COMBO_PER_MULTIPLIER_LEVEL + 1,
                               engine.max_multiplier)
         IN  DrumMultipliers([points EXCEPT ![i].value = @ * multiplier],
                             i + 1, new_combo, engine)

\* points_from_track of NoteTrack<DrumNoteColour>, for a track without a
\* big rock ending.
drum_points_from_track(track, conv, unison_phrases, squeeze_settings, dsettings, engine) ==
    shift_points_by_video_lag(
        DrumMultipliers(
            add_drum_activation_points(
                track, conv,
                SortByBeat(DrumNotePoints(track, 1, 1, conv, unison_phrases,
                                          squeeze_settings.squeeze, dsettings,
                                          engine, <<>>))),
            1, 0, engine),
        conv, squeeze_settings.video_lag)

DrumNotes ==
    [position : {0, PointResolution \div 2, PointResolution},
     length : {0}, colour : {"Red"}]
        \cup [position : {0, PointResolution \div 2},
              length : {0}, colour : {"Kick", "DoubleKick"}]
        \cup {[position |-> PointResolution \div 2, length |-> 0,
               colour |-> "Yellow"]}

\* The notes of a drum NoteTrack, at most MaxDrumNotes of them: sorted by
\* position, the notes of one position in the order of their colours in the
\* enumeration DrumNoteColour, for which every order is taken.
DrumNoteSeqs ==
    UNION {{notes \in [1..Cardinality(set) -> set] :
                /\ \A i, j \in 1..Cardinality(set) :
                       i < j => /\ notes[i] # notes[j]
                                /\ notes[i].position <= notes[j].position} :
               set \in {t \in SUBSET DrumNotes :
                            Cardinality(t) <= MaxDrumNotes}}

DrumPhraseInputs ==
    {<<>>,
     <<[position |-> 0, length |-> 50]>>,
     <<[position |-> 0, length |-> 50],
       [position |-> PointResolution \div 2, length |-> 50]>>,
     <<[position |-> 0, length |-> 50],
       [position |-> PointResolution, length |-> 50]>>}

DrumFillInputs ==
    {<<>>,
     <<[position |-> 0, length |-> 40]>>,
     <<[position |-> 0, length |-> 144]>>,
     <<[position |-> PointResolution \div 2, length |-> 100]>>}

DrumSettingsInputs == [disable_kick : BOOLEAN, enable_double_kick : BOOLEAN]

\* NoteTrack<DrumNoteColour>: the phrases without a note are dropped.
DrumTracks ==
    {[notes |-> notes, sp_phrases |-> NoteTrackPhrases(phrases, notes),
      drum_fills |-> fills, resolution |-> PointResolution] :
         notes \in DrumNoteSeqs, phrases \in DrumPhraseInputs,
         fills \in DrumFillInputs}

DrumConverter == TimeConverter(SyncTrack(<<>>, <<>>), PointResolution)

DrumSqueezeSettings == [squeeze |-> R(1), video_lag |-> R(0)]

DrumEngine == ChGuitarEngine

NoDrumTrack ==
    [notes |-> <<>>, sp_phrases |-> <<>>, drum_fills |-> <<>>,
     resolution |-> PointResolution]

NoDrumSettings == [disable_kick |-> FALSE, enable_double_kick |-> FALSE]

DrumsIdle ==
    /\ drum_stage = "idle"
    /\ drum_track = NoDrumTrack
    /\ drum_settings = NoDrumSettings
    /\ drum_points = <<>>

DrumPointsFromTrack ==
    /\ drum_stage = "input"
    /\ drum_stage' = "built"
    /\ drum_points' = drum_points_from_track(drum_track, DrumConverter, {},
                                             DrumSqueezeSettings,
                                             drum_settings, DrumEngine)
    /\ UNCHANGED <<drum_track, drum_settings>>
    /\ UNCHANGED <<trackVars, syncVars, settingsVars,
                   chartVars, pointsVars, sustainVars, candidateVars, imageVars, midiVars, soloVars>>

(***************************************************************************)
(* combine_note_on_off_events: the Note On events and the Note Off events  *)
(* of a MIDI track are paired into ranges.  An event is a pair (position,  *)
(* rank), the rank growing with the place of the event in the file.        *)
(***************************************************************************)

\* operator< of std::tuple<int, int>.
TupleLess(lhs, rhs) ==
    \/ lhs[1] < rhs[1]
    \/ lhs[1] = rhs[1] /\ lhs[2] < rhs[2]

\* A mutant of OnNotBeforeOff: the ranks are not looked at.
OnNotBeforeOffByPosition(on, off) == on[1] >= off[1]

\* *on_iter >= *off_iter
OnNotBeforeOff(on, off) == ~TupleLess(on, off)

MidiPositions == {0, 1}

MidiRanks == {0, 1, 2}

\* The lists of events that are sorted, at most MaxMidiEvents long.
MidiEventLists ==
    UNION {{events \in [1..n -> MidiPositions \X MidiRanks] :
                \A i \in 1..(n - 1) : ~TupleLess(events[i + 1], events[i])} :
               n \in 0..MaxMidiEvents}

MidiIdle ==
    /\ midi_stage = "idle"
    /\ on_events = <<>>
    /\ off_events = <<>>
    /\ on_iter = 1
    /\ off_iter = 1
    /\ ranges = <<>>

\* One round of the while loop.
CombineStep ==
    /\ midi_stage = "loop"
    /\ on_iter <= Len(on_events)
    /\ off_iter <= Len(off_events)
    /\ IF OnNotBeforeOff(on_events[on_iter], off_events[off_iter])
       THEN /\ off_iter' = off_iter + 1
            /\ UNCHANGED <<on_iter, ranges>>
       ELSE /\ ranges' = Append(ranges, <<on_events[on_iter][1],
                                          off_events[off_iter][1]>>)
            /\ on_iter' = on_iter + 1
            /\ off_iter' = off_iter + 1
    /\ UNCHANGED <<midi_stage, on_events, off_events>>
    /\ UNCHANGED <<trackVars, syncVars, settingsVars,
                   chartVars, pointsVars, sustainVars, candidateVars, imageVars, drumsVars, soloVars>>

\* After the loop: an on event that is left throws ParseError.
CombineEnd ==
    /\ midi_stage = "loop"
    /\ ~(on_iter <= Len(on_events) /\ off_iter <= Len(off_events))
    /\ midi_stage' = IF on_iter # Len(on_events) + 1 THEN "threw"
                     ELSE "returned"
    /\ UNCHANGED <<on_events, off_events, on_iter, off_iter, ranges>>
    /\ UNCHANGED <<trackVars, syncVars, settingsVars,
                   chartVars, pointsVars, sustainVars, candidateVars, imageVars, drumsVars, soloVars>>

(***************************************************************************)
(* form_solo_vector: the solo and soloend events of a track of a .chart    *)
(* file, sorted by read_single_track, are turned into the solos.           *)
(***************************************************************************)
SOLO_NOTE_VALUE == 100

\* A mutant of positions_in_solo: the notes at the end of the solo are left
\* out.
positions_before_end(notes, start, end) ==
    {notes[n].position : n \in {m \in 1..Len(notes) :
                                    /\ notes[m].position >= start
                                    /\ notes[m].position < end}}

\* The std::set positions_in_solo the loop over the notes fills.
positions_in_solo(notes, start, end) ==
    {notes[n].position : n \in {m \in 1..Len(notes) :
                                    /\ notes[m].position >= start
                                    /\ notes[m].position <= end}}

SoloPositions == {0, 1, 2}

\* std::sort of the pairs: by position, a solo before a soloend.
SoloEventLists ==
    UNION {{events \in [1..n -> SoloPositions \X {0, 1}] :
                \A i \in 1..(n - 1) : ~TupleLess(events[i + 1], events[i])} :
               n \in 0..MaxSoloEvents}

\* The notes as read_single_track has stored them: in the order of the
\* file, a position more than once for a chord.
SoloNoteLists ==
    {<<>>,
     <<[position |-> 0, length |-> 0, colour |-> "Green"]>>,
     <<[position |-> 2, length |-> 0, colour |-> "Green"]>>,
     <<[position |-> 1, length |-> 0, colour |-> "Green"],
       [position |-> 1, length |-> 0, colour |-> "Red"]>>,
     <<[position |-> 2, length |-> 0, colour |-> "Green"],
       [position |-> 0, length |-> 0, colour |-> "Green"]>>,
     <<[position |-> 0, length |-> 0, colour |-> "Green"],
       [position |-> 1, length |-> 0, colour |-> "Green"],
       [position |-> 2, length |-> 0, colour |-> "Green"]>>}

SoloIdle ==
    /\ solo_stage = "idle"
    /\ solo_events = <<>>
    /\ solo_notes = <<>>
    /\ solo_iter = 1
    /\ solo_start = 0
    /\ solo_end = 0
    /\ in_solo = FALSE
    /\ solos = <<>>

\* One round of the loop over solo_events.
SoloEvent ==
    /\ solo_stage = "loop"
    /\ solo_iter <= Len(solo_events)
    /\ solo_iter' = solo_iter + 1
    /\ LET pos == solo_events[solo_iter][1]
           type == solo_events[solo_iter][2]
       IN  IF type = 0 /\ ~in_solo
           THEN /\ in_solo' = TRUE
                /\ solo_start' = pos
                /\ UNCHANGED <<solo_end, solos>>
           ELSE IF type = 1 /\ in_solo
           THEN /\ in_solo' = FALSE
                /\ solo_end' = pos
                /\ UNCHANGED solo_start
                /\ \E positions \in {positions_in_solo(solo_notes, solo_start,
                                                      pos)} :
                       solos' = IF positions = {} THEN solos
                                ELSE Append(solos,
                                            [start |-> solo_start,
                                             end |-> pos,
                                             value |-> SOLO_NOTE_VALUE
                                                 * Cardinality(positions)])
           ELSE UNCHANGED <<in_solo, solo_start, solo_end, solos>>
    /\ UNCHANGED <<solo_stage, solo_events, solo_notes>>
    /\ UNCHANGED <<trackVars, syncVars, settingsVars, chartVars, pointsVars, sustainVars, candidateVars, imageVars, drumsVars, midiVars>>

\* return solos;
SoloReturn ==
    /\ solo_stage = "loop"
    /\ solo_iter > Len(solo_events)
    /\ solo_stage' = "returned"
    /\ UNCHANGED <<solo_events, solo_notes, solo_iter, solo_start, solo_end,
                   in_solo, solos>>
    /\ UNCHANGED <<trackVars, syncVars, settingsVars, chartVars, pointsVars, sustainVars, candidateVars, imageVars, drumsVars, midiVars>>

(***************************************************************************)
(* The specifications.  Each follows one part of the program; the          *)
(* variables of the other parts stay idle.                                 *)
(***************************************************************************)
InitTrack ==
    /\ SoloIdle
    /\ MidiIdle
    /\ DrumsIdle
    /\ ImageIdle
    /\ CandidateIdle
    /\ SustainIdle
    /\ PointsIdle
    /\ SyncIdle
    /\ SettingsIdle
    /\ ChartIdle
    /\ track_stage = "read"
    /\ pre_notes = <<>>
    /\ pre_sp_phrases = <<>>
    /\ m_notes = <<>>
    /\ m_sp_phrases = <<>>

NextTrack ==
    \/ ReadNote
    \/ ReadStarPower
    \/ ConstructNoteTrack

SpecTrack == InitTrack /\ [][NextTrack]_vars

InitSync ==
    /\ SoloIdle
    /\ MidiIdle
    /\ DrumsIdle
    /\ ImageIdle
    /\ CandidateIdle
    /\ SustainIdle
    /\ PointsIdle
    /\ TrackIdle
    /\ SettingsIdle
    /\ ChartIdle
    /\ sync_stage = "read"
    /\ pre_bpms = <<>>
    /\ pre_time_sigs = <<>>
    /\ header_resolution \in Resolutions
    /\ sync_track = NoSyncTrack
    /\ converter = NoConverter
    /\ query = NoQuery

NextSync ==
    \/ ReadBpm
    \/ ReadTimeSig
    \/ ConstructSyncTrack
    \/ ConstructTimeConverter
    \/ Convert

SpecSync == InitSync /\ [][NextSync]_vars

InitSettings ==
    /\ SoloIdle
    /\ MidiIdle
    /\ DrumsIdle
    /\ ImageIdle
    /\ CandidateIdle
    /\ SustainIdle
    /\ PointsIdle
    /\ TrackIdle
    /\ SyncIdle
    /\ ChartIdle
    /\ settings_stage = "file"
    /\ settings_file \in SettingsFiles
    /\ settings = DefaultSettings

NextSettings ==
    \/ LoadSavedSettings
    \/ SaveSettings

SpecSettings == InitSettings /\ [][NextSettings]_vars

InitChart ==
    /\ SoloIdle
    /\ MidiIdle
    /\ DrumsIdle
    /\ ImageIdle
    /\ CandidateIdle
    /\ SustainIdle
    /\ PointsIdle
    /\ TrackIdle
    /\ SyncIdle
    /\ SettingsIdle
    /\ ChartIdle

NextChart ==
    \/ BeginParseChart
    \/ ReadHeader
    \/ OpenSection
    \/ SkipLine
    \/ SongLine
    \/ SyncLine
    \/ TrackLine
    \/ FinishParseChart
    \/ FromMidi

SpecChart == InitChart /\ [][NextChart]_vars

\* parse_chart runs on: a step of it is taken whenever one changes the state.
FairSpecChart == SpecChart /\ WF_vars(NextChart)

InitPoints ==
    /\ SoloIdle
    /\ MidiIdle
    /\ DrumsIdle
    /\ ImageIdle
    /\ CandidateIdle
    /\ SustainIdle
    /\ TrackIdle
    /\ SyncIdle
    /\ SettingsIdle
    /\ ChartIdle
    /\ points_stage = "input"
    /\ \/ /\ pt_track \in LongTracks
          /\ pt_converter = TimeConverter(SyncTrack(<<>>, <<>>), PointResolution)
          /\ pt_squeeze_settings \in
                 [squeeze : {R(1)}, video_lag : {R(0), Frac(1, 20)}]
       \/ /\ pt_track \in PointTracks
          /\ pt_converter \in PointConverters
          /\ pt_squeeze_settings \in PointSqueezeSettings
    /\ pt_unison_phrases \in PointUnisonPhrases
    /\ pt_engine \in Engines
    /\ m_points = <<>>
    /\ m_next_non_hold_point = <<>>
    /\ m_next_sp_granting_note = <<>>
    /\ m_cumulative_score_totals = <<>>

NextPoints == ConstructPointSet

SpecPoints == InitPoints /\ [][NextPoints]_vars

InitSustain ==
    /\ SoloIdle
    /\ MidiIdle
    /\ DrumsIdle
    /\ ImageIdle
    /\ CandidateIdle
    /\ TrackIdle
    /\ SyncIdle
    /\ SettingsIdle
    /\ ChartIdle
    /\ PointsIdle
    /\ sust_stage = "input"
    /\ sust_call \in SustainCalls
    /\ sust_points = <<>>

NextSustain == AppendSustainPoints

SpecSustain == InitSustain /\ [][NextSustain]_vars

InitCandidate ==
    /\ SoloIdle
    /\ MidiIdle
    /\ DrumsIdle
    /\ ImageIdle
    /\ TrackIdle
    /\ SyncIdle
    /\ SettingsIdle
    /\ ChartIdle
    /\ PointsIdle
    /\ SustainIdle
    /\ cand_stage = "input"
    /\ cand_call \in CandidateCalls
    /\ cand_overlaps \in BOOLEAN
    /\ act_result = ActResult(R(0), "success")

NextCandidate == IsCandidateValid

SpecCandidate == InitCandidate /\ [][NextCandidate]_vars

InitImage ==
    /\ SoloIdle
    /\ MidiIdle
    /\ DrumsIdle
    /\ TrackIdle
    /\ SyncIdle
    /\ SettingsIdle
    /\ ChartIdle
    /\ PointsIdle
    /\ SustainIdle
    /\ CandidateIdle
    /\ img_pc = "input"
    /\ img_track \in ImageTracks
    /\ img_sync_track \in ImageSyncTracks
    /\ current_beat = R(0)
    /\ row_length = R(0)
    /\ m_rows = <<>>
    /\ line_row = 0
    /\ line_start = R(0)
    /\ m_measure_lines = <<>>
    /\ m_beat_lines = <<>>
    /\ m_half_beat_lines = <<>>
    /\ m_green_ranges = <<>>
    /\ col_start = R(0)
    /\ col_end = R(0)
    /\ row_iter = 1
    /\ read_past_rows = FALSE

NextImage ==
    \/ BeginDrawnRows
    \/ OuterLoop
    \/ RowStep
    \/ MeasureStep
    \/ AddSpPhrases
    \/ BeginColourBeatRange
    \/ ColourBlock

SpecImage == InitImage /\ [][NextImage]_vars

\* The constructor runs on: a step of it is taken whenever one changes the
\* state.
FairSpecImage == SpecImage /\ WF_vars(NextImage)

InitDrums ==
    /\ SoloIdle
    /\ MidiIdle
    /\ TrackIdle
    /\ SyncIdle
    /\ SettingsIdle
    /\ ChartIdle
    /\ PointsIdle
    /\ SustainIdle
    /\ CandidateIdle
    /\ ImageIdle
    /\ drum_stage = "input"
    /\ drum_track \in DrumTracks
    /\ drum_settings \in DrumSettingsInputs
    /\ drum_points = <<>>

NextDrums == DrumPointsFromTrack

SpecDrums == InitDrums /\ [][NextDrums]_vars

InitMidi ==
    /\ SoloIdle
    /\ TrackIdle
    /\ SyncIdle
    /\ SettingsIdle
    /\ ChartIdle
    /\ PointsIdle
    /\ SustainIdle
    /\ CandidateIdle
    /\ ImageIdle
    /\ DrumsIdle
    /\ midi_stage = "loop"
    /\ on_events \in MidiEventLists
    /\ off_events \in MidiEventLists
    /\ on_iter = 1
    /\ off_iter = 1
    /\ ranges = <<>>

NextMidi == CombineStep \/ CombineEnd

SpecMidi == InitMidi /\ [][NextMidi]_vars

InitSolo ==
    /\ TrackIdle
    /\ SyncIdle
    /\ SettingsIdle
    /\ ChartIdle
    /\ PointsIdle
    /\ SustainIdle
    /\ CandidateIdle
    /\ ImageIdle
    /\ DrumsIdle
    /\ MidiIdle
    /\ solo_stage = "loop"
    /\ solo_events \in SoloEventLists
    /\ solo_notes \in SoloNoteLists
    /\ solo_iter = 1
    /\ solo_start = 0
    /\ solo_end = 0
    /\ in_solo = FALSE
    /\ solos = <<>>

NextSolo == SoloEvent \/ SoloReturn

SpecSolo == InitSolo /\ [][NextSolo]_vars

(***************************************************************************)
(* Helpers of the properties.                                              *)
(***************************************************************************)
\* The last index at which the sequence of booleans holds, 0 when there is none.
LastIndex(same) ==
    IF \E i \in 1..Len(same) : same[i]
    THEN CHOOSE i \in 1..Len(same) :
             same[i] /\ \A j \in (i + 1)..Len(same) : ~same[j]
    ELSE 0

\* `out` holds, in strictly increasing tick order, the last entry of `in` at
\* each tick of `in`, and `default` at tick 0 when `in` has nothing there.
NormalisedByPosition(in, out, default) ==
    /\ Len(out) >= 1
    /\ \A k \in 1..(Len(out) - 1) : out[k].position < out[k + 1].position
    /\ out[1].position = 0
    /\ \A i \in 1..Len(in) : \E k \in 1..Len(out) :
           out[k].position = in[i].position
    /\ \A k \in 1..Len(out) :
           LET last == LastIndex([i \in 1..Len(in) |->
                                      in[i].position = out[k].position])
           IN  out[k] = IF last = 0 THEN default ELSE in[last]

ValidSyncTrack(sync) == \A i \in 1..Len(sync.bpms) : sync.bpms[i].bpm > 0

C5_NotesSortedLastKept ==
    track_stage = "built" =>
        /\ \A k \in 1..(Len(m_notes) - 1) : NoteLess(m_notes[k], m_notes[k + 1])
        /\ \A i \in 1..Len(pre_notes) : \E k \in 1..Len(m_notes) :
               /\ m_notes[k].position = pre_notes[i].position
               /\ m_notes[k].colour = pre_notes[i].colour
        /\ \A k \in 1..Len(m_notes) :
               LET last == LastIndex([i \in 1..Len(pre_notes) |->
                                        /\ pre_notes[i].position = m_notes[k].position
                                        /\ pre_notes[i].colour = m_notes[k].colour])
               IN  last # 0 /\ m_notes[k] = pre_notes[last]

\* Three input notes, two of them with the same position and colour but
\* another length, and the input out of order.
C5_Witness ==
    /\ track_stage = "built"
    /\ Len(pre_notes) = 3
    /\ Len(m_notes) = 2
    /\ NoteLess(pre_notes[3], pre_notes[1])
    /\ \E i, j \in 1..3 :
           /\ i < j
           /\ pre_notes[i].position = pre_notes[j].position
           /\ pre_notes[i].colour = pre_notes[j].colour
           /\ pre_notes[i].length # pre_notes[j].length

(***************************************************************************)
(* Properties of SyncTrack and TimeConverter (SpecSync).                   *)
(***************************************************************************)
\* C6: time_sigs() and bpms() are non-empty, strictly increasing in tick, start
\* at tick 0 (with 4/4 and 120 BPM when the input has no entry there) and hold
\* the last input entry of every input tick.
C6_SyncTrackNormalised ==
    sync_stage # "read" =>
        /\ NormalisedByPosition(pre_bpms, sync_track.bpms, DefaultBpm)
        /\ NormalisedByPosition(pre_time_sigs, sync_track.time_sigs,
                                DefaultTimeSignature)

\* Two tempos at one tick later than 0, in the input after nothing at tick 0:
\* the default is put in front and the second of the two is kept.
C6_Witness ==
    /\ sync_stage = "track"
    /\ Len(pre_bpms) = 2
    /\ pre_bpms[1].position = pre_bpms[2].position
    /\ pre_bpms[1].position # 0
    /\ pre_bpms[1].bpm # pre_bpms[2].bpm
    /\ Len(sync_track.bpms) = 2
    /\ Len(pre_time_sigs) = 1
    /\ pre_time_sigs[1].position = 0

\* C9: with every tempo positive, converting a beat to seconds and back gives
\* the beat again, inside, on, before and after the breakpoints.
C9_RoundTrip ==
    (sync_stage = "asked" /\ ValidSyncTrack(sync_track))
        => REq(query.back, query.beats)

\* A beat strictly between two breakpoints of different tempo was converted.
C9_Witness ==
    /\ sync_stage = "asked"
    /\ ValidSyncTrack(sync_track)
    /\ Len(converter.m_beat_timestamps) = 2
    /\ sync_track.bpms[1].bpm # sync_track.bpms[2].bpm
    /\ RLt(converter.m_beat_timestamps[1].beat, query.beats)
    /\ RLt(query.beats, converter.m_beat_timestamps[2].beat)
    /\ REq(query.back, query.beats)

\* C10 as claimed: for every sync track read from a chart, beats_to_seconds is
\* strictly increasing.
C10_StrictlyIncreasing ==
    sync_stage \in {"converter", "asked"} =>
        \A b1, b2 \in QueryBeats :
            RLt(b1, b2) => RLt(beats_to_seconds(converter, b1),
                               beats_to_seconds(converter, b2))

(***************************************************************************)
(* Properties of load_saved_settings (SpecSettings).                       *)
(***************************************************************************)
SettingDefault(k) == IF k \in {"squeeze", "early_whammy"} THEN MAX_PERCENT ELSE 0

SettingMin(k) == IF k = "video_lag" THEN MIN_VIDEO_LAG ELSE 0

\* What load_saved_settings must return for key k when whole numbers from
\* SettingMin(k) to max are in range.
ExpectedSetting(k, max) ==
    LET value == settings_file.obj[k]
    IN  IF /\ settings_file.kind = "object"
           /\ value.type = "Double"
           /\ value.whole
           /\ SettingMin(k) <= value.num
           /\ value.num <= max
        THEN value.num
        ELSE SettingDefault(k)

ExpectedLeftyFlip ==
    /\ settings_file.kind = "object"
    /\ settings_file.obj["lefty_flip"] = JsonBool(TRUE)

\* C8 as claimed: every lazy_whammy and whammy_delay >= 0 is in range and is
\* returned unchanged.  The largest probe stands for "no upper end".
C8_AsClaimed ==
    settings_stage = "loaded" =>
        /\ settings.squeeze = ExpectedSetting("squeeze", MAX_PERCENT)
        /\ settings.early_whammy = ExpectedSetting("early_whammy", MAX_PERCENT)
        /\ settings.lazy_whammy
               = ExpectedSetting("lazy_whammy", MAX_LINE_EDIT_INT + 1)
        /\ settings.whammy_delay
               = ExpectedSetting("whammy_delay", MAX_LINE_EDIT_INT + 1)
        /\ settings.video_lag = ExpectedSetting("video_lag", MAX_VIDEO_LAG)
        /\ settings.is_lefty_flip = ExpectedLeftyFlip

\* C8, amended: squeeze and early_whammy are in [0, 100], lazy_whammy and
\* whammy_delay in [0, 999999999] and video_lag in [-200, 200]; a key holding
\* a whole number of its interval is returned unchanged and every other key
\* (missing, not a whole number, outside its interval, or any key of a file
\* that is absent or not a JSON object) takes its own default, whatever the
\* other keys hold.
C8_SettingsInRangeOrDefault ==
    settings_stage = "loaded" =>
        /\ settings.squeeze \in 0..MAX_PERCENT
        /\ settings.early_whammy \in 0..MAX_PERCENT
        /\ settings.lazy_whammy \in 0..MAX_LINE_EDIT_INT
        /\ settings.whammy_delay \in 0..MAX_LINE_EDIT_INT
        /\ settings.video_lag \in MIN_VIDEO_LAG..MAX_VIDEO_LAG
        /\ settings.squeeze = ExpectedSetting("squeeze", MAX_PERCENT)
        /\ settings.early_whammy = ExpectedSetting("early_whammy", MAX_PERCENT)
        /\ settings.lazy_whammy = ExpectedSetting("lazy_whammy", MAX_LINE_EDIT_INT)
        /\ settings.whammy_delay
               = ExpectedSetting("whammy_delay", MAX_LINE_EDIT_INT)
        /\ settings.video_lag = ExpectedSetting("video_lag", MAX_VIDEO_LAG)
        /\ settings.is_lefty_flip = ExpectedLeftyFlip

\* A file was loaded in which squeeze is missing, early_whammy is at the lower
\* end, lazy_whammy at the upper end, whammy_delay past it and video_lag
\* below its interval.
C8_Witness ==
    /\ settings_stage = "loaded"
    /\ settings_file.kind = "object"
    /\ settings_file.obj["squeeze"] = Undefined
    /\ settings_file.obj["early_whammy"] = JsonInt(0)
    /\ settings_file.obj["lazy_whammy"] = JsonInt(MAX_LINE_EDIT_INT)
    /\ settings_file.obj["whammy_delay"] = JsonInt(MAX_LINE_EDIT_INT + 1)
    /\ settings_file.obj["video_lag"] = JsonInt(MIN_VIDEO_LAG - 1)
    /\ settings = [squeeze |-> MAX_PERCENT, early_whammy |-> 0,
                   lazy_whammy |-> MAX_LINE_EDIT_INT, whammy_delay |-> 0,
                   video_lag |-> 0, is_lefty_flip |-> FALSE]

\* C7: every Chart that parse_chart or from_midi returns has a resolution
\* above zero; an input that gives a resolution of zero or less is rejected.
C7_ResolutionPositive ==
    chart_stage = "returned" => m_resolution > 0

\* C1: the points that points_from_track returns are ordered by beat, also
\* after the shift by the video lag: no point lies before one that precedes it.
C1_PointsOrderedByBeat ==
    points_stage = "built" =>
        \A i, j \in 1..Len(m_points) :
            i < j => RLe(m_points[i].position, m_points[j].position)

\* The sum of the values of the points at positions first .. last, from 0.
RECURSIVE SumOfValues(_, _, _)
SumOfValues(points, first, last) ==
    IF first > last THEN 0
    ELSE points[first + 1].value + SumOfValues(points, first + 1, last)

\* C2: for positions a <= b, range_score(a, b), the difference of two entries
\* of the prefix sums of score_totals, is the sum of the values of the points
\* from a up to b, b itself excluded (b may be the end position).
C2_RangeScoreIsSum ==
    points_stage = "built" =>
        \A a, b \in 0..Len(m_points) :
            a <= b => range_score(m_cumulative_score_totals, a, b)
                          = SumOfValues(m_points, a, b - 1)

C2_Witness ==
    /\ points_stage = "built"
    /\ \E a, b \in 0..Len(m_points) :
        /\ a + 2 <= b
        /\ m_points[a + 1].is_hold_point
        /\ ~m_points[b].is_hold_point
        /\ range_score(m_cumulative_score_totals, a, b) > m_points[b].value

\* C3: the hit window of a point that is not a hold point contains its
\* position, and a hold point's window is its position, whatever the squeeze,
\* the tempo map and the video lag.
C3_HitWindowsMonotone ==
    points_stage = "built" =>
        \A i \in 1..Len(m_points) :
            IF m_points[i].is_hold_point
            THEN /\ REq(m_points[i].hit_window_start, m_points[i].position)
                 /\ REq(m_points[i].position, m_points[i].hit_window_end)
            ELSE /\ RLe(m_points[i].hit_window_start, m_points[i].position)
                 /\ RLe(m_points[i].position, m_points[i].hit_window_end)

\* The tempo maps without a tempo of 0, on which C3 is left to the points code.
C3_HoldsOnPositiveTempos ==
    pt_converter.m_last_bpm > 0 => C3_HitWindowsMonotone

\* The points that are not hold points, in point order.
Heads(points) == SelectSeq(points, LAMBDA point : ~point.is_hold_point)

\* The ticks that carry a chord, and the number of notes of the h-th chord.
ChordTicks(notes) == {notes[x].position : x \in 1..Len(notes)}

NthChordSize(notes, h) ==
    LET tick == CHOOSE q \in ChordTicks(notes) :
                    Cardinality({r \in ChordTicks(notes) : r < q}) = h - 1
    IN  Cardinality({x \in 1..Len(notes) : notes[x].position = tick})

\* C11: there is one head point for every chord; its base_value is the
\* engine's note value times the number of notes of the chord and is left
\* alone by the multiplier pass, its value is base_value times a multiplier
\* from 1 to max_multiplier; three notes at the start of a Clone Hero guitar
\* track give a head point of value 150.
C11_HeadValues ==
    points_stage = "built" =>
        LET heads == Heads(m_points)
            notes == pt_track.notes
        IN  /\ Len(heads) = Cardinality(ChordTicks(notes))
            /\ \A h \in 1..Len(heads) :
                   /\ heads[h].base_value
                          = pt_engine.base_note_value * NthChordSize(notes, h)
                   /\ \E multiplier \in 1..pt_engine.max_multiplier :
                          heads[h].value = heads[h].base_value * multiplier
            /\ (/\ pt_engine = ChGuitarEngine
                /\ notes # <<>>
                /\ NthChordSize(notes, 1) = 3) => heads[1].value = 150

C11_Witness ==
    /\ points_stage = "built"
    /\ pt_engine = ChGuitarEngine
    /\ pt_track.notes # <<>>
    /\ NthChordSize(pt_track.notes, 1) = 3
    /\ Heads(m_points)[1].value = 150
    /\ \E h \in 1..Len(Heads(m_points)) :
           Heads(m_points)[h].value = 4 * Heads(m_points)[h].base_value

\* The least position j >= i, from 0, at which the sequence of booleans
\* holds, and its length, the end position, when there is none.
LeastMatchFrom(matches, i) ==
    IF \E j \in i..(Len(matches) - 1) : matches[j + 1]
    THEN CHOOSE j \in i..(Len(matches) - 1) :
             matches[j + 1] /\ \A k \in i..(j - 1) : ~matches[k + 1]
    ELSE Len(matches)

\* C18: next_non_hold_vector and next_sp_note_vector are as long as the point
\* vector (empty for no points); entry i is the least position j >= i of a
\* point that is not a hold point, respectively of an SP-granting note, and
\* the end position when there is none.
C18_NextMatchingVectors ==
    points_stage = "built" =>
        LET non_hold == [i \in 1..Len(m_points) |-> ~m_points[i].is_hold_point]
            sp_note == [i \in 1..Len(m_points) |->
                            m_points[i].is_sp_granting_note]
        IN  /\ Len(m_next_non_hold_point) = Len(m_points)
            /\ Len(m_next_sp_granting_note) = Len(m_points)
            /\ \A i \in 0..(Len(m_points) - 1) :
                   /\ m_next_non_hold_point[i + 1] = LeastMatchFrom(non_hold, i)
                   /\ m_next_sp_granting_note[i + 1]
                          = LeastMatchFrom(sp_note, i)

C18_Witness ==
    /\ points_stage = "built"
    /\ \E i, j \in 1..Len(m_points) :
        /\ i < j
        /\ m_points[i].is_hold_point
        /\ m_next_non_hold_point[i] = j - 1
        /\ m_next_sp_granting_note[i] = j - 1
        /\ m_next_sp_granting_note[j] = j - 1
    /\ m_next_non_hold_point[Len(m_points)] = Len(m_points)
    /\ m_next_sp_granting_note[Len(m_points)] = Len(m_points)

\* min(floor(combo / combo_per_multiplier_level) + 1, max_multiplier)
MultiplierAt(combo, engine) ==
    LET level == combo \div COMBO_PER_MULTIPLIER_LEVEL + 1
    IN  IF level < engine.max_multiplier THEN level ELSE engine.max_multiplier

ComboAt(points, i) ==
    Cardinality({k \in 1..i : ~points[k].is_hold_point})

LastHeadBefore(points, i) ==
    points[CHOOSE k \in 1..i :
               /\ ~points[k].is_hold_point
               /\ \A l \in (k + 1)..i : points[l].is_hold_point]

\* C20 as stated: a hold point has the multiplier of the most recent head
\* point before it in point order, whatever the engine.
C20_AsClaimed ==
    points_stage = "built" =>
        \A i \in 1..Len(m_points) :
            m_points[i].is_hold_point /\ ComboAt(m_points, i) > 0 =>
                LET head == LastHeadBefore(m_points, i)
                IN  m_points[i].value * head.base_value
                        = m_points[i].base_value * head.value

\* C20, amended: a hold point is multiplied by min(floor(combo / 10) + 1,
\* max_multiplier), combo being the number of head points before it in point
\* order, with or without delayed_multiplier; the most recent head point has
\* the same multiplier, except that under delayed_multiplier the head that
\* brings the combo to a multiple of 10 below the top level has one less.
C20_HoldMultipliers ==
    points_stage = "built" =>
        \A i \in 1..Len(m_points) :
            m_points[i].is_hold_point =>
                LET combo == ComboAt(m_points, i)
                    multiplier == MultiplierAt(combo, pt_engine)
                    steps_up == /\ pt_engine.delayed_multiplier
                                /\ combo % COMBO_PER_MULTIPLIER_LEVEL = 0
                                /\ combo \div COMBO_PER_MULTIPLIER_LEVEL
                                       < pt_engine.max_multiplier
                IN  /\ combo > 0
                    /\ m_points[i].value = m_points[i].base_value * multiplier
                    /\ LastHeadBefore(m_points, i).value
                           = LastHeadBefore(m_points, i).base_value
                               * (IF steps_up THEN multiplier - 1
                                  ELSE multiplier)

C20_Witness ==
    /\ points_stage = "built"
    /\ pt_engine.delayed_multiplier
    /\ \E i \in 1..Len(m_points) :
        /\ m_points[i].is_hold_point
        /\ ComboAt(m_points, i) = 10
        /\ m_points[i].value = 2 * m_points[i].base_value
        /\ LastHeadBefore(m_points, i).value
               = LastHeadBefore(m_points, i).base_value

\* The point vector handed to shift_points_by_video_lag by points_from_track.
PointsBeforeShift ==
    ApplyMultipliers(
        SortByBeat(NotePoints(pt_track, 1, 1, pt_converter, pt_unison_phrases,
                              pt_squeeze_settings.squeeze, pt_engine, <<>>)),
        1, 0, pt_engine)

MovedByVideoLag(old_beat, new_beat) ==
    REq(beats_to_seconds(pt_converter, new_beat),
        RAdd(beats_to_seconds(pt_converter, old_beat),
             pt_squeeze_settings.video_lag))

\* C13: shift_points_by_video_lag moves position, hit_window_start and
\* hit_window_end of every non-hold point by video_lag seconds, leaves the
\* hold points and every value, base_value and flag as they were, and leaves
\* the whole vector as it was when video_lag is 0.
C13_ShiftByVideoLag ==
    points_stage = "built" =>
        \E before \in {PointsBeforeShift} :
            /\ Len(m_points) = Len(before)
            /\ \A i \in 1..Len(before) :
                   IF before[i].is_hold_point
                   THEN m_points[i] = before[i]
                   ELSE /\ MovedByVideoLag(before[i].position,
                                           m_points[i].position)
                        /\ MovedByVideoLag(before[i].hit_window_start,
                                           m_points[i].hit_window_start)
                        /\ MovedByVideoLag(before[i].hit_window_end,
                                           m_points[i].hit_window_end)
                        /\ m_points[i] =
                               [before[i] EXCEPT
                                    !.position = m_points[i].position,
                                    !.hit_window_start =
                                        m_points[i].hit_window_start,
                                    !.hit_window_end =
                                        m_points[i].hit_window_end]
            /\ (pt_squeeze_settings.video_lag = R(0) => m_points = before)

\* The tempo maps without a tempo of 0, on which C13 is left to the shift.
C13_HoldsOnPositiveTempos ==
    pt_converter.m_last_bpm > 0 => C13_ShiftByVideoLag

\* At 120 BPM a video lag of 50 ms moves the head at beat 4.0 to beat 4.1.
C13_BeatFourMoves ==
    /\ points_stage = "built"
    /\ pt_squeeze_settings.video_lag = Frac(1, 20)
    /\ pt_converter.m_last_bpm = DEFAULT_BPM
    /\ \E k \in 1..Len(pt_track.notes) :
        pt_track.notes[k].position = 4 * pt_track.resolution
    /\ \E i \in 1..Len(m_points) :
        /\ ~m_points[i].is_hold_point
        /\ m_points[i].position = Frac(41, 10)
    /\ \A i \in 1..Len(m_points) : m_points[i].position # R(4)

\* The call C12 is about: one 96-tick sustain at resolution 192 under an
\* engine with 25 sustain points per beat that rounds to nearest.
SingleSustainOf96 ==
    /\ sust_stage = "appended"
    /\ sust_call.sust_length = 96
    /\ sust_call.resolution = 192
    /\ sust_call.chord_size = 1
    /\ sust_call.engine.sust_points_per_beat = 25
    /\ sust_call.engine.sustain_rounding = "RoundToNearest"

\* The distance of two beats in ticks of the call's resolution.
TicksBetween(earlier, later) ==
    RMul(RSub(later, earlier), R(sust_call.resolution))

\* C12 as stated: the call writes exactly 12 hold points, 8 ticks apart, each
\* of value 1.
C12_AsClaimed ==
    SingleSustainOf96 =>
        /\ Len(sust_points) = 12
        /\ \A i \in 1..Len(sust_points) : sust_points[i].value = 1
        /\ \A i \in 1..(Len(sust_points) - 1) :
               TicksBetween(sust_points[i].position,
                            sust_points[i + 1].position) = R(8)

\* C12, amended: the tick gap is floor(192 / 25) = 7 when the engine rounds
\* the gap and 192 / 25 = 7.68 otherwise, the rounded tick count 14 or 13.
\* With a burst size of 0 the call writes that many hold points of value 1,
\* one gap apart; with a burst size of a quarter beat it writes 7 of them and
\* then one hold point that carries the other 7 or 6 ticks.
C12_SustainOf96 ==
    SingleSustainOf96 =>
        LET rounds == sust_call.engine.round_tick_gap
            gap == IF rounds THEN R(7) ELSE Frac(192, 25)
            ticks == IF rounds THEN 14 ELSE 13
            units == IF sust_call.engine.burst_size = R(0) THEN ticks ELSE 7
            beat_of(tick) ==
                RDiv(RAdd(R(sust_call.position), tick), R(sust_call.resolution))
            unit_points ==
                [k \in 1..units |->
                    HoldPoint(beat_of(RSub(RMul(R(k), gap), HALF_RES_OFFSET)),
                              1)]
            burst_point ==
                HoldPoint(beat_of(RAdd(RMul(R(units), gap), HALF_RES_OFFSET)),
                          ticks - units)
        IN  /\ sust_points = IF units < ticks
                             THEN Append(unit_points, burst_point)
                             ELSE unit_points
            /\ \A i \in 1..(units - 1) :
                   TicksBetween(sust_points[i].position,
                                sust_points[i + 1].position) = gap
            /\ Len(sust_points) \in {8, 13, 14}

C12_Witness ==
    /\ SingleSustainOf96
    /\ sust_call.engine.round_tick_gap
    /\ sust_call.engine.burst_size = Frac(1, 4)
    /\ Len(sust_points) = 8
    /\ sust_points[7].value = 1
    /\ sust_points[8].value = 7
    /\ TicksBetween(sust_points[1].position, sust_points[2].position) = R(7)

TimeSigInForce(beat) ==
    LET sigs == img_sync_track.time_sigs
        before == {i \in 1..Len(sigs) :
                      RLe(R(sigs[i].position),
                          RMul(R(img_track.resolution), beat))}
    IN  IF before = {} THEN DefaultTimeSignature
        ELSE sigs[CHOOSE i \in before : \A j \in before : j <= i]

\* The length in beats of the measure that starts at a beat: 4 n / d.
MeasureLength(beat) ==
    Frac(4 * TimeSigInForce(beat).numerator, TimeSigInForce(beat).denominator)

\* The starts of the measures from `beat` on that begin before `end`.
RECURSIVE MeasureStarts(_, _, _)
MeasureStarts(beat, end, out) ==
    IF RLt(beat, end) /\ RLt(R(0), MeasureLength(beat))
    THEN MeasureStarts(RAdd(beat, MeasureLength(beat)), end, Append(out, beat))
    ELSE out

RowsReturned == img_pc \in {"lines", "built", "done"}

LastRowEnd == m_rows[Len(m_rows)].end

\* A beat where a row may begin or end: a measure boundary, or a multiple of
\* 16 beats into a measure of more than 16 beats.
IsRowBoundary(beat) ==
    LET starts == MeasureStarts(R(0), RAdd(LastRowEnd, R(1)), <<>>)
    IN  \E k \in 1..Len(starts) :
            \/ beat = starts[k]
            \/ beat = RAdd(starts[k], MeasureLength(starts[k]))
            \/ /\ RLt(R(MAX_BEATS_PER_LINE), MeasureLength(starts[k]))
               /\ \E j \in 1..MAX_BEATS_PER_LINE :
                      /\ beat = RAdd(starts[k], R(MAX_BEATS_PER_LINE * j))
                      /\ RLt(beat, RAdd(starts[k], MeasureLength(starts[k])))

\* C15: the rows drawn_rows returns start at beat 0, each begins where the
\* one before ends, none is longer than 16 beats, every row boundary is a
\* measure boundary or a cut of a measure longer than 16 beats into rows of
\* 16 beats, and the last row ends after the end of the last note.
C15_RowsPartition ==
    RowsReturned =>
        /\ Len(m_rows) >= 1
        /\ m_rows[1].start = R(0)
        /\ \A k \in 1..(Len(m_rows) - 1) : m_rows[k].end = m_rows[k + 1].start
        /\ \A k \in 1..Len(m_rows) :
               /\ RLe(m_rows[k].start, m_rows[k].end)
               /\ RLe(RSub(m_rows[k].end, m_rows[k].start),
                      R(MAX_BEATS_PER_LINE))
               /\ IsRowBoundary(m_rows[k].end)
        /\ RLt(max_beat, LastRowEnd)

\* A measure of 20 beats is drawn as a row of 16 beats and one of 4.
C15_Witness ==
    /\ RowsReturned
    /\ Len(m_rows) >= 3
    /\ m_rows[1] = DrawnRow(R(0), R(16))
    /\ m_rows[2] = DrawnRow(R(16), R(20))
    /\ RLt(R(20), max_beat)

\* The measures the constructor draws: those that start before the last row
\* ends.
DrawnMeasures == MeasureStarts(R(0), LastRowEnd, <<>>)

RECURSIVE LinesOfMeasures(_, _, _, _)
LinesOfMeasures(starts, k, first, out) ==
    IF k > Len(starts) THEN out
    ELSE LET sig == TimeSigInForce(starts[k])
             beat_length == Frac(4, sig.denominator)
         IN  LinesOfMeasures(
                 starts, k + 1, first,
                 out \o [i \in 1..(sig.numerator - first) |->
                            RAdd(starts[k],
                                 RMul(IF first = 1 THEN R(i)
                                      ELSE RSub(R(i), HALF_BEAT),
                                      beat_length))])

\* C16: for every measure drawn, of time signature n/d and beat length
\* L = 4/d, measure_lines holds its start, beat_lines holds start + i L for
\* 1 <= i < n and half_beat_lines holds start + (i + 1/2) L for 0 <= i < n;
\* measure_lines ends with the end of the last measure drawn.
C16_LinesOfEveryMeasure ==
    img_pc \in {"built", "done"} =>
        /\ m_measure_lines = Append(DrawnMeasures, LastRowEnd)
        /\ m_beat_lines = LinesOfMeasures(DrawnMeasures, 1, 1, <<>>)
        /\ m_half_beat_lines = LinesOfMeasures(DrawnMeasures, 1, 0, <<>>)

\* What the constructor does record on measures of at most 16 beats.
C16_WithoutTheClosingLine ==
    /\ img_pc \in {"built", "done"}
    /\ \A k \in 1..Len(DrawnMeasures) :
           RLe(MeasureLength(DrawnMeasures[k]), R(MAX_BEATS_PER_LINE))
    => /\ m_measure_lines = DrawnMeasures
       /\ m_beat_lines = LinesOfMeasures(DrawnMeasures, 1, 1, <<>>)
       /\ m_half_beat_lines = LinesOfMeasures(DrawnMeasures, 1, 0, <<>>)

\* The notes of the track inside a phrase, in track order.
NotesInPhrase(phrase) ==
    SelectSeq(img_track.notes,
              LAMBDA note : /\ note.position >= phrase.position
                            /\ note.position < phrase.position + phrase.length)

\* C17: add_sp_phrases adds one green range per phrase, from the beat of the
\* first note in the phrase to the beat where the last note in it ends, and
\* at least a tenth of a beat wide.
C17_GreenRanges ==
    img_pc = "done" =>
        /\ Len(m_green_ranges) = Len(img_track.sp_phrases)
        /\ \A i \in 1..Len(img_track.sp_phrases) :
               LET notes == NotesInPhrase(img_track.sp_phrases[i])
                   first == notes[1]
                   last == notes[Len(notes)]
                   start == Frac(first.position, img_track.resolution)
                   end == Frac(last.position + last.length,
                               img_track.resolution)
                   least == RAdd(start, Frac(1, 10))
               IN  m_green_ranges[i]
                       = <<start, IF RLt(end, least) THEN least ELSE end>>

\* C21 as stated: every hold point of the call has base_value 1 and value 1.
C21_AsClaimed ==
    sust_stage = "appended" =>
        \A i \in 1..Len(sust_points) :
            sust_points[i].base_value = 1 /\ sust_points[i].value = 1

\* C21, amended: every hold point of the call has value = base_value >= 1;
\* all but the last have 1, and the last carries the ticks the loop left
\* when the rest of the sustain was no longer than the burst size.
C21_HoldPointValues ==
    sust_stage = "appended" =>
        \A i \in 1..Len(sust_points) :
            /\ sust_points[i].is_hold_point
            /\ sust_points[i].value = sust_points[i].base_value
            /\ sust_points[i].base_value >= 1
            /\ i < Len(sust_points) => sust_points[i].base_value = 1

C21_Witness ==
    /\ sust_stage = "appended"
    /\ Len(sust_points) >= 2
    /\ sust_points[1].base_value = 1
    /\ sust_points[Len(sust_points)].base_value > 1

RECURSIVE SumOfBaseValues(_, _)
SumOfBaseValues(points, i) ==
    IF i > Len(points) THEN 0
    ELSE points[i].base_value + SumOfBaseValues(points, i + 1)

\* T: sust_length / tick_gap, rounded by the engine's policy, times chord_size
\* when chords multiply sustains; the gap is resolution / sust_points_per_beat,
\* floored when the engine rounds it and never below 1.
SustainTicks ==
    LET engine == sust_call.engine
        quotient == Frac(sust_call.resolution, engine.sust_points_per_beat)
        floored == IF engine.round_tick_gap THEN R(RFloor(quotient))
                   ELSE quotient
        gap == IF RLt(floored, R(1)) THEN R(1) ELSE floored
        ticks == RDiv(R(sust_call.sust_length), gap)
        rounded == IF engine.sustain_rounding = "RoundUp" THEN RCeil(ticks)
                   ELSE RRound(ticks)
    IN  IF engine.chords_multiply_sustains THEN rounded * sust_call.chord_size
        ELSE rounded

\* C29: the base values of the hold points of one call sum to T, whether they
\* come as unit points, as one burst point or as both, and there is no hold
\* point when T = 0.
C29_BaseValuesSumToTicks ==
    sust_stage = "appended" =>
        /\ SumOfBaseValues(sust_points, 1) = SustainTicks
        /\ SustainTicks = 0 => sust_points = <<>>

\* Unit points followed by a burst point, under chords that multiply.
C29_Witness ==
    /\ sust_stage = "appended"
    /\ sust_call.engine.chords_multiply_sustains
    /\ sust_call.chord_size = 2
    /\ Len(sust_points) >= 2
    /\ sust_points[1].base_value = 1
    /\ sust_points[Len(sust_points)].base_value > 1
    /\ SumOfBaseValues(sust_points, 1) = SustainTicks

\* A call whose only hold point is the burst point.
C29_BurstOnly ==
    /\ sust_stage = "appended"
    /\ Len(sust_points) = 1
    /\ sust_points[1].base_value > 1

\* The tick of the h-th chord of the notes.
NthChordTick(notes, h) ==
    CHOOSE q \in ChordTicks(notes) :
        Cardinality({r \in ChordTicks(notes) : r < q}) = h - 1

\* Whether a tick lies in [phrase.position, phrase.position + phrase.length).
PhraseHolds(phrase, tick) ==
    tick >= phrase.position /\ tick < phrase.position + phrase.length

\* C22: the h-th head point, which is the h-th chord, is SP-granting exactly
\* when its tick lies in a phrase of the track and no later chord's tick lies
\* in that phrase; so there is one SP-granting point per phrase, and no hold
\* point is SP-granting.
C22_SpGrantingNotes ==
    points_stage = "built" =>
        LET heads == Heads(m_points)
            chords == Cardinality(ChordTicks(pt_track.notes))
            phrases == pt_track.sp_phrases
            tick(h) == NthChordTick(pt_track.notes, h)
            last_in_phrase(h) ==
                \E k \in 1..Len(phrases) :
                    /\ PhraseHolds(phrases[k], tick(h))
                    /\ \A l \in (h + 1)..chords :
                           ~PhraseHolds(phrases[k], tick(l))
        IN  /\ Len(heads) = chords
            /\ \A h \in 1..Len(heads) :
                   heads[h].is_sp_granting_note <=> last_in_phrase(h)
            /\ Cardinality({h \in 1..Len(heads) : heads[h].is_sp_granting_note})
                   = Len(phrases)
            /\ \A i \in 1..Len(m_points) :
                   m_points[i].is_hold_point => ~m_points[i].is_sp_granting_note

\* Two phrases, each ended by its own chord, and a hold point in between.
C22_Witness ==
    /\ points_stage = "built"
    /\ Len(pt_track.sp_phrases) = 2
    /\ Len(Heads(m_points)) = 2
    /\ Heads(m_points)[1].is_sp_granting_note
    /\ Heads(m_points)[2].is_sp_granting_note
    /\ \E i \in 1..Len(m_points) : m_points[i].is_hold_point

\* A phrase of two chords: only the second is SP-granting.
C22_LastChordOnly ==
    /\ points_stage = "built"
    /\ Len(pt_track.sp_phrases) = 1
    /\ Len(Heads(m_points)) = 2
    /\ ~Heads(m_points)[1].is_sp_granting_note
    /\ Heads(m_points)[2].is_sp_granting_note

\* The notes of the drum track the settings do not skip: the k-th of them is
\* the note of the k-th point, the drum notes having no sustains.
PlayedDrumNotes ==
    SelectSeq(drum_track.notes,
              LAMBDA note : ~skip_kick(note.colour, drum_settings))

\* The points of the notes of a phrase that grant star power.
GrantingPointsIn(phrase) ==
    {k \in 1..Len(drum_points) :
        /\ drum_points[k].is_sp_granting_note
        /\ phrase_contains_pos(phrase, PlayedDrumNotes[k].position)}

\* The last played note of a phrase.
LastPlayedIn(phrase) ==
    CHOOSE k \in 1..Len(PlayedDrumNotes) :
        /\ phrase_contains_pos(phrase, PlayedDrumNotes[k].position)
        /\ \A o \in 1..Len(PlayedDrumNotes) :
               phrase_contains_pos(phrase, PlayedDrumNotes[o].position)
                   => o <= k

\* C30: in the drum points_from_track, whatever the drum settings, every SP
\* phrase with a note the kick settings do not skip has exactly one point
\* that grants star power, the one of its last such note, even after a
\* phrase whose notes are all skipped kicks.
C30_OneGrantingPointForEachPhrase ==
    drum_stage = "built" =>
        \A f \in 1..Len(drum_track.sp_phrases) :
            LET phrase == drum_track.sp_phrases[f]
            IN  (\E k \in 1..Len(PlayedDrumNotes) :
                     phrase_contains_pos(phrase, PlayedDrumNotes[k].position))
                    => GrantingPointsIn(phrase) = {LastPlayedIn(phrase)}

\* A phrase of skipped kicks only comes before a phrase with a played note.
C30_AfterAPhraseOfSkippedKicks ==
    /\ drum_stage = "built"
    /\ \E f, g \in 1..Len(drum_track.sp_phrases) :
           /\ f < g
           /\ \A k \in 1..Len(PlayedDrumNotes) :
                  ~phrase_contains_pos(drum_track.sp_phrases[f],
                                       PlayedDrumNotes[k].position)
           /\ \E k \in 1..Len(PlayedDrumNotes) :
                  phrase_contains_pos(drum_track.sp_phrases[g],
                                      PlayedDrumNotes[k].position)

\* The distance of the k-th drum point from the end of a fill, in beats.
FillGap(fill, k) ==
    BeatGap(drum_points[k].position,
            Frac(fill.position + fill.length, drum_track.resolution))

\* The first of the points at the beat that is closest to the end of the
\* fill, the later beat being taken of two beats as close.
ChosenPoint(fill) ==
    CHOOSE k \in 1..Len(drum_points) :
        /\ \A o \in 1..Len(drum_points) :
               /\ RLe(FillGap(fill, k), FillGap(fill, o))
               /\ REq(FillGap(fill, k), FillGap(fill, o))
                      => RLe(drum_points[o].position, drum_points[k].position)
        /\ \A o \in 1..(k - 1) :
               ~REq(drum_points[o].position, drum_points[k].position)

\* A note that is no kick lies at the beat of the k-th point.
NonKickNoteAt(k) ==
    \E n \in 1..Len(drum_track.notes) :
        /\ ~is_kick_colour(drum_track.notes[n].colour)
        /\ REq(Frac(drum_track.notes[n].position, drum_track.resolution),
               drum_points[k].position)

\* C23 as it was stated: a point with a fill_start is as close to the end of
\* the fill as any point, it lies at or before the end of the fill when a
\* point of another beat is as close, and a note that is no kick lies at its
\* beat.
C23_AsClaimed ==
    (drum_stage = "built" /\ Len(drum_track.drum_fills) = 1) =>
        \A k \in 1..Len(drum_points) :
            drum_points[k].fill_start # <<>> =>
                LET fill == drum_track.drum_fills[1]
                    fill_end == Frac(fill.position + fill.length,
                                     drum_track.resolution)
                IN  /\ NonKickNoteAt(k)
                    /\ \A o \in 1..Len(drum_points) :
                           /\ RLe(FillGap(fill, k), FillGap(fill, o))
                           /\ (/\ REq(FillGap(fill, k), FillGap(fill, o))
                               /\ ~REq(drum_points[o].position,
                                       drum_points[k].position))
                                  => RLe(drum_points[k].position, fill_end)

\* C23: for the fill of a drum track, the point chosen is the first point at
\* the beat closest to the end of the fill among the beats of all the points,
\* the later beat when two are as close; it gets the time of the start of
\* the fill as its fill_start when a note that is no kick lies at its beat,
\* and no other point, and no point at all otherwise, gets a fill_start.
C23_FillStart ==
    drum_stage = "built" =>
        IF Len(drum_track.drum_fills) = 1 /\ drum_points # <<>>
        THEN LET fill == drum_track.drum_fills[1]
                 chosen == ChosenPoint(fill)
             IN  \A k \in 1..Len(drum_points) :
                     drum_points[k].fill_start =
                         IF k = chosen /\ NonKickNoteAt(k)
                         THEN <<beats_to_seconds(
                                    DrumConverter,
                                    Frac(fill.position,
                                         drum_track.resolution))>>
                         ELSE <<>>
        ELSE \A k \in 1..Len(drum_points) : drum_points[k].fill_start = <<>>

\* The end of the fill is as far from a point before it as from a point
\* after it, and the later of the two has the fill_start.
C23_Witness ==
    /\ drum_stage = "built"
    /\ Len(drum_track.drum_fills) = 1
    /\ \E k, o \in 1..Len(drum_points) :
           /\ RLt(drum_points[o].position, drum_points[k].position)
           /\ REq(FillGap(drum_track.drum_fills[1], k),
                  FillGap(drum_track.drum_fills[1], o))
           /\ drum_points[k].fill_start # <<>>

\* The closest point is the point of a kick alone and no point has a
\* fill_start.
C23_KickOnlyAtTheChosenBeat ==
    /\ drum_stage = "built"
    /\ Len(drum_track.drum_fills) = 1
    /\ drum_points # <<>>
    /\ ~NonKickNoteAt(ChosenPoint(drum_track.drum_fills[1]))
    /\ \E k \in 1..Len(drum_points) : NonKickNoteAt(k)

\* C26: parse_chart ends on every input, by returning a chart or by
\* throwing, an input that ends inside a section included.
C26_ParseChartTerminates == <>(chart_stage \in {"returned", "threw"})

\* C27: drawn_rows ends and returns its rows for every note track and every
\* sync track, a time signature of numerator 0 included.
C27_DrawnRowsTerminates == <>(img_pc \in {"lines", "built", "done"})

\* The off event an on event is paired with: the earliest off event after
\* the on event in (position, rank) order that no earlier on event is
\* paired with; 0 when there is none, and for every on event after one that
\* has none.
RECURSIVE PairedOff(_)
PairedOff(i) ==
    LET taken == {PairedOff(k) : k \in 1..(i - 1)}
        free == {j \in 1..Len(off_events) :
                    /\ j \notin taken
                    /\ TupleLess(on_events[i], off_events[j])}
    IN  IF 0 \in taken \/ free = {} THEN 0
        ELSE CHOOSE j \in free : \A o \in free : j <= o

\* C24: combine_note_on_off_events returns one range for each on event, in
\* the order of the on events, from the on event to the earliest off event
\* after it in (position, rank) order that is not yet used, so that no
\* range ends before it starts; it throws exactly when an on event has no
\* such off event.
C24_OnOffPairing ==
    midi_stage \in {"returned", "threw"} =>
        IF \A i \in 1..Len(on_events) : PairedOff(i) # 0
        THEN /\ midi_stage = "returned"
             /\ Len(ranges) = Len(on_events)
             /\ \A i \in 1..Len(on_events) :
                    /\ ranges[i] = <<on_events[i][1],
                                     off_events[PairedOff(i)][1]>>
                    /\ ranges[i][1] <= ranges[i][2]
        ELSE midi_stage = "threw"

\* An on event is paired with an off event of its own tick that comes later
\* in the file, after an off event of that tick was passed over.
C24_Witness ==
    /\ midi_stage = "returned"
    /\ ranges # <<>>
    /\ ranges[1][1] = ranges[1][2]
    /\ PairedOff(1) = 2
    /\ off_events[1][1] = on_events[1][1]

\* An on event is left without an off event and the call throws.
C24_Throws ==
    /\ midi_stage = "threw"
    /\ ranges # <<>>

\* The soloend events that close a solo: those that come right after a solo
\* event.
ClosingEvents ==
    {j \in 2..Len(solo_events) :
        solo_events[j][2] = 1 /\ solo_events[j - 1][2] = 0}

\* The event that has opened the solo the event j closes: the first of the
\* solo events that come before j without a soloend in between.
OpeningEvent(j) ==
    CHOOSE i \in 1..(j - 1) :
        /\ \A k \in i..(j - 1) : solo_events[k][2] = 0
        /\ i = 1 \/ solo_events[i - 1][2] = 1

NotePositionsIn(start, end) ==
    {solo_notes[n].position : n \in {m \in 1..Len(solo_notes) :
                                         /\ start <= solo_notes[m].position
                                         /\ solo_notes[m].position <= end}}

\* The closing events of the sections that have a note.
SectionsWithNotes ==
    {j \in ClosingEvents :
        NotePositionsIn(solo_events[OpeningEvent(j)][1],
                        solo_events[j][1]) # {}}

\* The k-th of them.
NthSection(k) ==
    CHOOSE j \in SectionsWithNotes :
        Cardinality({o \in SectionsWithNotes : o < j}) = k - 1

\* C25: form_solo_vector opens a solo at a solo event outside a solo, closes
\* it at a soloend event inside one and passes over every other event; the
\* solos returned are those of the closed sections with a note, in order,
\* each from its start to its end with 100 for each distinct position of a
\* note in between, so that start <= end, the value is positive and a solo
\* ends before the next one starts.
C25_SolosOfClosedSections ==
    solo_stage = "returned" =>
        /\ Len(solos) = Cardinality(SectionsWithNotes)
        /\ \A k \in 1..Len(solos) :
               LET j == NthSection(k)
                   start == solo_events[OpeningEvent(j)][1]
                   end == solo_events[j][1]
               IN  /\ solos[k] =
                          [start |-> start, end |-> end,
                           value |-> 100 * Cardinality(NotePositionsIn(start,
                                                                       end))]
                   /\ solos[k].start <= solos[k].end
                   /\ solos[k].value > 0
                   /\ k < Len(solos) => solos[k].end < solos[k + 1].start

\* A solo is returned whose chord counts once, and a section without notes
\* is dropped.
C25_Witness ==
    /\ solo_stage = "returned"
    /\ Len(solos) >= 1
    /\ Cardinality(ClosingEvents) > Len(solos)
    /\ \E k \in 1..Len(solos) :
           Cardinality({n \in 1..Len(solo_notes) :
                           /\ solos[k].start <= solo_notes[n].position
                           /\ solo_notes[n].position <= solos[k].end})
               > solos[k].value \div SOLO_NOTE_VALUE

\* Two solos are returned.
C25_TwoSolos ==
    /\ solo_stage = "returned"
    /\ Len(solos) = 2

\* A solo is returned and an event was passed over.
C25_EventPassedOver ==
    /\ solo_stage = "returned"
    /\ Len(solos) = 1
    /\ Len(solo_events) > 2 * Cardinality(ClosingEvents)

\* C28: whenever colour_beat_range dereferences its row iterator, for a
\* range of a sustain, a solo, an SP phrase or an activation, the iterator
\* designates one of the rows.
C28_RowIterDesignatesARow ==
    (img_pc = "colour" /\ RLt(col_start, col_end)) =>
        row_iter <= Len(m_rows)

\* A range that ends inside the rows has been coloured over two rows.
C28_ColouredOverTwoRows ==
    /\ img_pc = "coloured"
    /\ ~read_past_rows
    /\ row_iter > 2
    /\ RLt(R(0), col_end)

====
